---- MODULE Spec2Model ----
(***************************************************************************)
(* Model of the Jenkins-TEM pipeline of src/script.py: the orchestrator    *)
(* BuildAutomator.run_automation and the stages it calls                   *)
(* (check_for_new_commits, trigger_jenkins_build,                          *)
(* get_build_number_from_queue, wait_for_build_completion,                 *)
(* execute_tem_automation, update_processed_commit).                       *)
(*                                                                         *)
(* Texts (git output, marker file content, console log) are sequences of   *)
(* tokens; "nl" is a newline, "sp" other whitespace, anything else is      *)
(* visible text.  Python's None is the string "None" for scalars and the   *)
(* sequence NoneText for texts, NoneNum for numbers.  Time is in seconds.  *)
(***************************************************************************)
EXTENDS Integers, Sequences, FiniteSets, TLC

\* ------------------------------------------------------------------ bounds
MaxItems == 2         \* entries of the pending-queue listing
MaxBuildNumber == 2   \* execution ids the build system hands out
MaxLogLines == 21     \* lines of a console log
MaxCountedPolls == 3  \* queue polls are counted up to this many
MaxChecks == 3        \* calls of check_function in a thread-by-thread call of
                      \* log_with_spinner

\* --------------------------------------------------------------- constants
TailLines == 20            \* lines[-20:]
QueueTimeout == 7200       \* get_build_number_from_queue(timeout=7200)
QueueInterval == 10        \* check_interval of the queue loop
BuildInterval == 900       \* check_interval of the build loop
MaxWaitHours == 3          \* wait_for_build_completion(max_wait_hours=3)
NotifyGap == 900           \* time.time() - last_poll_time >= 900
NotifyEvery == 15          \* mins % 15 == 0
SpinInterval == 10         \* log_with_spinner(check_interval=10)

\* ------------------------------------------------------------------- texts
NoneText == <<"None">>
NoFile == <<"NoFile">>
Revisions == {"h1", "h2"}

IsSpace(c) == c \in {"nl", "sp"}

RECURSIVE LStrip(_)
LStrip(s) == IF s = <<>> THEN s
             ELSE IF IsSpace(Head(s)) THEN LStrip(Tail(s)) ELSE s

RECURSIVE RStrip(_)
RStrip(s) == IF s = <<>> THEN s
             ELSE IF IsSpace(s[Len(s)]) THEN RStrip(SubSeq(s, 1, Len(s) - 1)) ELSE s

\* str.strip()
Strip(s) == RStrip(LStrip(s))

\* str.lower(), on the pieces the texts of the model are made of
LowerPiece(c) ==
    IF c = "Infor/" THEN "infor/"
    ELSE IF c = "CSF-Integration-TestScripts" THEN "csf-integration-testscripts"
    ELSE c

Lower(s) == [i \in DOMAIN s |-> LowerPiece(s[i])]

\* Python's `needle in s`
Contains(needle, s) ==
    \E i \in 1..(Len(s) - Len(needle) + 1) : SubSeq(s, i, i + Len(needle) - 1) = needle

\* truth value of a Python text (None and "" are false)
TruthyText(s) == s # NoneText /\ s # <<>>

\* Python's None where a number is expected
NoneNum == 0 - 1

\* truth value of a Python number or None
TruthyNum(n) == n # NoneNum /\ n # 0

\* 200 <= status_code < 300
Is2xx(status) == 200 <= status /\ status < 300

\* requests.Response.ok
RespOk(status) == status < 400

Statuses == {200, 201, 302, 500}

\* what `git rev-parse origin/master` can give: (returncode, stdout)
GitResults ==
    {[rc |-> 0, out |-> <<r, "nl">>] : r \in Revisions}
    \cup {[rc |-> 128, out |-> <<>>], [rc |-> 128, out |-> <<"origin/master", "nl">>]}

\* the revision a push during the run moves the remote head to
NewRevision == "h3"

VARIABLES
    args,          \* the flags of the command line, as main parses them
    exitStatus,    \* exit status of the process (None: it is running)
    interruptAt,   \* the position at which a KeyboardInterrupt arrived ("None": none)
    pc,            \* position of main, and of run_automation within it
    outcome,       \* how the invocation ended ("running" until then)
    stages,        \* stage invocations of the run, in order
    ops,           \* kinds of external operations done in the run
    markerFile,    \* content of .last_processed_commit, or NoFile
    markerAtStart, \* markerFile when the run started
    origin,        \* what BuildAutomator.verify_repository read: how the call of
                   \* git ended and remote_url (NotChecked: it did not run)
    detOrigin,     \* the same for push_detector's verify_csf_repository
    detArgv,       \* push_detector's sys.argv options, once it looked at them
    prevRun,       \* the revision the run before this one processed and wrote
                   \* to the marker (None: no run before this one)
    written,       \* how the marker write of the run went ("None": there was none)
    headMoved,     \* origin/master has moved on since the gate looked it up
    gitRc,         \* returncode of the gate's git command (None: it raised)
    gitOut,        \* stdout of the gate's git command
    gateRaised,    \* the gate's lookup raised
    new_commit,    \* run_automation.new_commit
    queue_url,     \* run_automation.queue_url
    warned,        \* the "may not be your run" warning was logged
    postStatus,    \* status of the trigger response (None: no response)
    location,      \* Location header of the trigger response
    lastNumber,    \* lastBuild.number of an ok job response (None: none)
    listedFirst,   \* the first entry, in listing order, of an ok pending-queue
                   \* listing whose task url contains the job name: its place
                   \* and its url (NoEntry: no such entry, or no ok listing)
    build_number,  \* run_automation.build_number
    last_reported_minute, \* check_queue's nonlocal
    inQueueSince,  \* the queue item's enqueue timestamp (ms, relative to start_time)
    firstReported, \* the execution number of the first status response of the
                   \* handle in which an executable appeared (None: none yet)
    noteBucket,    \* the 15-minute bucket of queued time of the last "Still in
                   \* queue" notification of the running queue loop (0: none yet)
    noteCount,     \* the notifications emitted for noteBucket
    lastPollNote,  \* what the last check_queue of the running loop did about
                   \* the notification: "none" (the item was not reported
                   \* pending), "early" (bucket 0), "emitted", "repeat" (nothing
                   \* emitted, the bucket was notified before), "missed" (nothing
                   \* emitted, the bucket was not notified before)
    build_success, \* run_automation.build_success
    last_poll_time, \* check_build's nonlocal, relative to start_time
    observed,      \* the terminal result a build poll observed ("None": none yet)
    consoleText,   \* the console text fetched (NoneText: none)
    consoleTail,   \* the console lines logged
    lastNoteAt,    \* when the watcher's last "still running" notification was
                   \* emitted, relative to start_time (0: none yet)
    noteTooSoon,   \* a "still running" notification was emitted less than
                   \* NotifyGap seconds after the one before it, or after the start
    buildPolls,    \* calls of check_build in the watcher's last wait
    clock,         \* time.time() - start_time in the running polling loop
    loopExpired,   \* the polling loop last run ended because its duration elapsed
    lateIteration, \* an iteration of the polling loop last run began when the
                   \* time elapsed since its start had reached its duration
    finalChecks,   \* the checks made after the polling loop last run had ended
    endPoll,       \* what the poll that ended the last polling stage met
    queuePolls,    \* calls of check_queue in the running queue loop, counted
                   \* up to MaxCountedPolls
    pollsOnCue,    \* the resolver met the execution id on its 2nd poll and,
                   \* once the watcher returned, it met SUCCESS on its 3rd
    tem_success,   \* run_automation.tem_success
    driver,        \* the browser session: "None", "live", "quit", or
                   \* "quitRaised" when driver.quit() was called and raised
    uiStep,        \* the step of the form sequence to attempt next
    attempted,     \* the steps attempted so far in the running form sequence
    clickFailed,   \* a safe_click of the form sequence returned False
    lastClick,     \* what the last safe_click of the running form sequence met and did
    submitOk,      \* the safe_click of the Submit step returned True
    uiPending,     \* what execute_tem_automation is leaving with
    spin_duration, \* log_with_spinner's duration argument
    checkPlan,     \* what check_function returns at its successive calls
    spinner_active, \* log_with_spinner.spinner_active
    spinner_result, \* log_with_spinner.spinner_result
    spinner_t,     \* position of the spinner thread ("None": not started)
    calls,         \* the times, since start_time, at which log_with_spinner
                   \* called check_function
    raising,       \* an exception is on its way out of log_with_spinner
    returned       \* what log_with_spinner returned ("running": not yet;
                   \* "raise": an exception left it)

ctlVars == <<args, exitStatus, interruptAt, pc, outcome, stages, ops>>
markerVars == <<markerFile, markerAtStart, written, prevRun>>
gateVars == <<headMoved, gitRc, gitOut, gateRaised, new_commit>>
trigVars == <<queue_url, warned, postStatus, location, lastNumber, listedFirst>>
queueVars == <<build_number, last_reported_minute, inQueueSince, queuePolls, firstReported,
               noteBucket, noteCount, lastPollNote>>
buildVars == <<build_success, last_poll_time, observed, consoleText, consoleTail, buildPolls,
               lastNoteAt, noteTooSoon>>
loopVars == <<clock, loopExpired, lateIteration, finalChecks, endPoll, pollsOnCue>>
uiVars == <<tem_success, driver, uiStep, attempted, clickFailed, lastClick, submitOk, uiPending>>

spinVars == <<spin_duration, checkPlan, spinner_active, spinner_result, spinner_t, calls,
              raising, returned>>

repoVars == <<origin, detOrigin, detArgv>>

vars == <<ctlVars, markerVars, gateVars, trigVars, queueVars, buildVars, loopVars, uiVars,
          spinVars, repoVars>>

\* what the marker file can hold when a run starts: nothing, or the
\* revision an earlier run wrote
MarkerFiles == {NoFile, <<"h1">>}

NoHandle == [kind |-> "None", id |-> 0]

\* verify_repository was not called
NotChecked == [read |-> "None", url |-> NoneText]

\* no entry of a listing
NoEntry == [pos |-> 0, url |-> NoHandle]

\* no safe_click was made yet
NoClick == [warned |-> FALSE, target |-> "None", direct |-> 0,
            rejected |-> FALSE, forced |-> 0, forcedOk |-> FALSE, ret |-> "None"]

\* what `git remote get-url origin` can give (rc None: subprocess.run raised,
\* e.g. git is not installed)
OriginUrls ==
    {<<"host/", "infor/", "csf-integration-testscripts", ".git", "nl">>,
     <<"host/", "Infor/", "CSF-Integration-TestScripts", ".git", "nl">>,
     <<"host/", "infor/", "other-repo", ".git", "nl">>,
     <<"nl">>}

OriginResults ==
    {[rc |-> 0, out |-> u] : u \in OriginUrls}
    \cup {[rc |-> 128, out |-> <<>>], [rc |-> NoneNum, out |-> NoneText]}

\* lines 74-77
expected_identifiers ==
    <<(<<"csf-integration-testscripts">>), <<"infor/", "csf-integration-testscripts">>>>

\* verify_repository accepting whatever remote git names
verify_repository_AnyRemote(o) ==
    IF o.rc = NoneNum THEN FALSE
    ELSE IF o.rc # 0 THEN FALSE
    ELSE TRUE

\* BuildAutomator.verify_repository, lines 58-82
verify_repository(o) ==
    IF o.rc = NoneNum THEN FALSE
    ELSE IF o.rc # 0 THEN FALSE
    ELSE LET remote_url == Lower(Strip(o.out))
         IN  \E k \in DOMAIN expected_identifiers :
                 Contains(expected_identifiers[k], remote_url)

\* push_detector.verify_csf_repository, lines 53-72
verify_csf_repository(o) ==
    IF o.rc = NoneNum THEN FALSE
    ELSE IF o.rc # 0 THEN FALSE
    ELSE LET remote_url == Lower(Strip(o.out))
         IN  \E k \in DOMAIN expected_identifiers :
                 Contains(expected_identifiers[k], remote_url)

\* what the verification read of a result of git
Read(o) ==
    IF o.rc = NoneNum THEN [read |-> "raised", url |-> NoneText]
    ELSE IF o.rc # 0 THEN [read |-> "failed", url |-> NoneText]
    ELSE [read |-> "ok", url |-> Lower(Strip(o.out))]

\* the options push_detector can be started with
DetectorOptions == {"--auto-build", "other"}

\* the flags main's parser knows, lines 737-761
Flags == {"build", "check", "help_setup", "test_jenkins", "test_tem"}

\* Mode without the test of lines 841-859: no flag runs the automation
Mode_NoSafetyCheck(a) ==
    IF "help_setup" \in a THEN "help_setup"
    ELSE IF "check" \in a THEN "check"
    ELSE IF "test_jenkins" \in a THEN "test_jenkins"
    ELSE IF "test_tem" \in a THEN "test_tem"
    ELSE "build"

\* Mode with --build tested before the other flags
Mode_BuildFirst(a) ==
    IF "build" \in a THEN "build"
    ELSE IF "help_setup" \in a THEN "help_setup"
    ELSE IF "check" \in a THEN "check"
    ELSE IF "test_jenkins" \in a THEN "test_jenkins"
    ELSE IF "test_tem" \in a THEN "test_tem"
    ELSE "safety"

\* the mode main selects, by the order of its tests (lines 768-859):
\* "safety" is the panel shown when no flag asks for anything
Mode(a) ==
    IF "help_setup" \in a THEN "help_setup"
    ELSE IF "check" \in a THEN "check"
    ELSE IF "test_jenkins" \in a THEN "test_jenkins"
    ELSE IF "test_tem" \in a THEN "test_tem"
    ELSE IF "build" \notin a THEN "safety"
    ELSE "build"

\* no call of log_with_spinner is modelled thread by thread
SpinIdle ==
    /\ spin_duration = 0
    /\ checkPlan = <<>>
    /\ spinner_active = FALSE
    /\ spinner_result = "None"
    /\ spinner_t = "None"
    /\ calls = <<>>
    /\ raising = FALSE
    /\ returned = "running"

\* the state of the pipeline before main has done anything
PipelineInit ==
    /\ exitStatus = NoneNum
    /\ origin = NotChecked
    /\ detOrigin = NotChecked
    /\ detArgv = {}
    /\ interruptAt = "None"
    /\ outcome = "running"
    /\ stages = <<>>
    /\ ops = {}
    /\ markerAtStart = markerFile
    /\ written = "None"
    /\ headMoved = FALSE
    /\ gitRc = NoneNum
    /\ gitOut = NoneText
    /\ gateRaised = FALSE
    /\ new_commit = NoneText
    /\ queue_url = NoHandle
    /\ warned = FALSE
    /\ postStatus = NoneNum
    /\ location = NoHandle
    /\ lastNumber = NoneNum
    /\ listedFirst = NoEntry
    /\ build_number = NoneNum
    /\ last_reported_minute = NoneNum
    /\ inQueueSince = NoneNum
    /\ firstReported = NoneNum
    /\ noteBucket = 0
    /\ noteCount = 0
    /\ lastPollNote = "none"
    /\ build_success = "None"
    /\ last_poll_time = 0
    /\ observed = "None"
    /\ consoleText = NoneText
    /\ consoleTail = <<>>
    /\ buildPolls = 0
    /\ lastNoteAt = 0
    /\ noteTooSoon = FALSE
    /\ clock = 0
    /\ loopExpired = FALSE
    /\ lateIteration = FALSE
    /\ finalChecks = 0
    /\ endPoll = "None"
    /\ queuePolls = 0
    /\ pollsOnCue = FALSE
    /\ tem_success = "None"
    /\ driver = "None"
    /\ uiStep = 0
    /\ attempted = <<>>
    /\ clickFailed = FALSE
    /\ lastClick = NoClick
    /\ submitOk = FALSE
    /\ uiPending = "None"

\* the same state, reached by starting the script again
PipelineReset ==
    /\ exitStatus' = NoneNum
    /\ origin' = NotChecked
    /\ detOrigin' = NotChecked
    /\ detArgv' = {}
    /\ interruptAt' = "None"
    /\ outcome' = "running"
    /\ stages' = <<>>
    /\ ops' = {}
    /\ markerAtStart' = markerFile'
    /\ written' = "None"
    /\ headMoved' = FALSE
    /\ gitRc' = NoneNum
    /\ gitOut' = NoneText
    /\ gateRaised' = FALSE
    /\ new_commit' = NoneText
    /\ queue_url' = NoHandle
    /\ warned' = FALSE
    /\ postStatus' = NoneNum
    /\ location' = NoHandle
    /\ lastNumber' = NoneNum
    /\ listedFirst' = NoEntry
    /\ build_number' = NoneNum
    /\ last_reported_minute' = NoneNum
    /\ inQueueSince' = NoneNum
    /\ firstReported' = NoneNum
    /\ noteBucket' = 0
    /\ noteCount' = 0
    /\ lastPollNote' = "none"
    /\ build_success' = "None"
    /\ last_poll_time' = 0
    /\ observed' = "None"
    /\ consoleText' = NoneText
    /\ consoleTail' = <<>>
    /\ buildPolls' = 0
    /\ lastNoteAt' = 0
    /\ noteTooSoon' = FALSE
    /\ clock' = 0
    /\ loopExpired' = FALSE
    /\ lateIteration' = FALSE
    /\ finalChecks' = 0
    /\ endPoll' = "None"
    /\ queuePolls' = 0
    /\ pollsOnCue' = FALSE
    /\ tem_success' = "None"
    /\ driver' = "None"
    /\ uiStep' = 0
    /\ attempted' = <<>>
    /\ clickFailed' = FALSE
    /\ lastClick' = NoClick
    /\ submitOk' = FALSE
    /\ uiPending' = "None"

Init ==
    /\ \/ pc = "main" /\ args \in SUBSET Flags
       \/ pc = "detector" /\ args = {}
    /\ markerFile \in MarkerFiles
    /\ prevRun = NoneText
    /\ PipelineInit
    /\ SpinIdle

\* exit status of the interpreter after a KeyboardInterrupt nothing caught
UncaughtStatus == 1

\* lines 873-874: main returns without ever setting an exit status, so the
\* process exits 0 unless an exception leaves main
ExitStatus(how) == IF how = "interrupt_uncaught" THEN UncaughtStatus ELSE 0

\* one step of the control flow: the next position, the outcome, the exit
\* status and the position of an interrupt
Step(where, how, status, at) ==
    /\ pc' = where
    /\ outcome' = how
    /\ exitStatus' = status
    /\ interruptAt' = at
    /\ args' = args

\* the invocation ends: run_automation returns or is left by an exception,
\* and main with it
Finish(how) == Step("done", how, ExitStatus(how), interruptAt)

\* the run goes on to its next position
Goto(where) == Step(where, outcome, exitStatus, interruptAt)

\* the run stays where it is
Stay == Step(pc, outcome, exitStatus, interruptAt)

\* a KeyboardInterrupt arrives and ends the invocation
Interrupted(how) == Step("done", how, ExitStatus(how), pc)

\* where a KeyboardInterrupt raised inside a stage ends: at line 726 when
\* run_automation called the stage; nothing in main catches it (lines 823,
\* 837: `except Exception`)
InterruptOutcome == IF Mode(args) = "build" THEN "interrupted" ELSE "interrupt_uncaught"

\* where an exception that leaves a stage ends: line 728, or the handler of
\* the test mode in main
ErrorOutcome == IF Mode(args) = "build" THEN "unexpected_error" ELSE "test_error"

\* ------------------------------------------------------------------- main
\* config.json as the constructor finds it: "missing" (open raises, line
\* 42), "incomplete" (a key of lines 51-56 is missing) or "ok"
ConfigFiles == {"missing", "incomplete", "ok"}

\* BuildAutomator.__init__, lines 37-56: does it return an object
Constructed(config, o) == config = "ok" /\ verify_repository(o)

\* main, lines 732-870, up to the call of the selected mode; the
\* constructor of BuildAutomator (lines 37-55) raises when config.json is
\* missing or the working directory is not the expected repository
Main ==
    /\ pc = "main"
    /\ \E config \in ConfigFiles, o \in OriginResults :
         LET mode == Mode(args)
             constructed == Constructed(config, o)
         IN
         /\ origin' = IF mode \in {"help_setup", "safety"} \/ config = "missing"
                         THEN NotChecked ELSE Read(o)
         /\ IF mode = "help_setup" THEN Finish("help_setup")
            ELSE IF mode = "safety" THEN Finish("safety")
            ELSE IF ~constructed
                   THEN Finish(IF mode = "build" THEN "init_failed"
                               ELSE IF mode = "check" THEN "check_error"
                               ELSE "test_error")
            ELSE IF mode = "check" THEN Goto("check")
            ELSE IF mode = "test_jenkins" THEN Goto("trigger")
            ELSE IF mode = "test_tem" THEN Goto("ui")
            ELSE Goto("gate")
    /\ UNCHANGED <<stages, ops, markerVars, gateVars, trigVars, queueVars, buildVars,
                   loopVars, uiVars, detOrigin, detArgv>>
    /\ UNCHANGED spinVars

\* push_detector.main, lines 74-91, up to the start of the automation; the
\* two early returns end the detector
PushDetector ==
    /\ pc = "detector"
    /\ \E o \in OriginResults, argv \in SUBSET DetectorOptions :
         /\ detOrigin' = Read(o)
         /\ IF ~verify_csf_repository(o)
              THEN detArgv' = {} /\ Finish("wrong_repository")
              ELSE /\ detArgv' = argv
                   /\ IF "--auto-build" \notin argv
                        THEN Finish("push_only")
                        ELSE Goto("detector_launch")
    /\ UNCHANGED <<stages, ops, markerVars, gateVars, trigVars, queueVars, buildVars,
                   loopVars, uiVars, origin>>
    /\ UNCHANGED spinVars

\* push_detector.main, lines 101-107: script.py --build is started in the
\* same working directory; what the detector read stays in the detector
DetectorLaunch ==
    /\ pc = "detector_launch"
    /\ pc' = "main"
    /\ args' = {"build"}
    /\ detOrigin' = NotChecked
    /\ detArgv' = {}
    /\ UNCHANGED <<exitStatus, interruptAt, outcome, stages, ops, origin,
                   markerVars, gateVars, trigVars, queueVars, buildVars, loopVars, uiVars>>
    /\ UNCHANGED spinVars

\* ------------------------------------------------------------ Commit Gate
\* check_for_new_commits comparing the raw stdout, without strip()
check_for_new_commits_NoStrip(git, raised) ==
    LET latest_commit == git.out
        last_processed == IF markerFile = NoFile THEN <<>> ELSE Strip(markerFile)
    IN  IF raised THEN NoneText
        ELSE IF latest_commit # last_processed THEN latest_commit
        ELSE NoneText

\* check_for_new_commits, lines 197-228, given the git result and whether
\* a call of it raised
check_for_new_commits(git, raised) ==
    LET latest_commit == Strip(git.out)
        last_processed == IF markerFile = NoFile THEN <<>> ELSE Strip(markerFile)
    IN  IF raised THEN NoneText
        ELSE IF latest_commit # last_processed THEN latest_commit
        ELSE NoneText

\* what `git rev-parse origin/master` can give: anything in a first run; in
\* a run that follows another, the remote head that run processed
HeadsSeen ==
    IF prevRun = NoneText THEN GitResults
    ELSE {g \in GitResults : Strip(g.out) = prevRun}

\* main, lines 799-811: the check-only mode
CheckOnly ==
    /\ pc = "check"
    /\ stages' = Append(stages, "Check")
    /\ ops' = ops \cup {"git"}
    /\ headMoved' = FALSE
    /\ \E git \in HeadsSeen, raised \in BOOLEAN :
         LET r == check_for_new_commits(git, raised) IN
         /\ gitRc' = IF raised THEN NoneNum ELSE git.rc
         /\ gitOut' = IF raised THEN NoneText ELSE git.out
         /\ gateRaised' = raised
         /\ new_commit' = r
         /\ Finish(IF TruthyText(r) THEN "check_new" ELSE "check_none")
    /\ UNCHANGED <<markerVars, trigVars, queueVars, buildVars, loopVars, uiVars>>
    /\ UNCHANGED spinVars
    /\ UNCHANGED repoVars

\* run_automation, lines 684-688
Gate ==
    /\ pc = "gate"
    /\ stages' = Append(stages, "Gate")
    /\ ops' = ops \cup {"git"}
    /\ headMoved' = FALSE
    /\ \E git \in HeadsSeen, raised \in BOOLEAN :
         LET r == check_for_new_commits(git, raised) IN
         /\ gitRc' = IF raised THEN NoneNum ELSE git.rc
         /\ gitOut' = IF raised THEN NoneText ELSE git.out
         /\ gateRaised' = raised
         /\ new_commit' = r
         /\ IF TruthyText(r) THEN Goto("trigger") ELSE Finish("noop")
    /\ UNCHANGED <<markerVars, trigVars, queueVars, buildVars, loopVars, uiVars>>
    /\ UNCHANGED spinVars
    /\ UNCHANGED repoVars

\* ---------------------------------------------------------- Build Trigger
QueueItemUrl(i) == [kind |-> "queueItem", id |-> i]
BuildUrl(n) == [kind |-> "build", id |-> n]

\* truth value of a url or None
TruthyUrl(u) == u.kind # "None"

\* entries of queue/api/json: does the task url contain the job name, and
\* the entry's own url (None when the key is missing)
QueueItems(pos) ==
    {[match |-> m, url |-> u] : m \in BOOLEAN, u \in {NoHandle, QueueItemUrl(pos)}}

Listings ==
    UNION {{l \in [1..n -> UNION {QueueItems(p) : p \in 1..n}] :
               \A p \in 1..n : l[p] \in QueueItems(p)} : n \in 0..MaxItems}

\* index of the first entry whose task url contains the job name, 0 if none
RECURSIVE FirstMatchFrom(_, _)
FirstMatchFrom(items, i) ==
    IF i > Len(items) THEN 0
    ELSE IF items[i].match THEN i
    ELSE FirstMatchFrom(items, i + 1)

\* FirstMatch going through the whole listing and keeping the last entry
\* that matches
FirstMatch_Last(items) ==
    IF \A i \in 1..Len(items) : ~items[i].match THEN 0
    ELSE CHOOSE i \in 1..Len(items) :
             items[i].match /\ \A j \in (i + 1)..Len(items) : ~items[j].match

FirstMatch(items) == FirstMatchFrom(items, 1)

\* the entry of a listing that matches and has no matching entry before it
FirstEntry(items) ==
    IF \A i \in 1..Len(items) : ~items[i].match THEN NoEntry
    ELSE LET i == CHOOSE k \in 1..Len(items) :
                      items[k].match /\ \A j \in 1..(k - 1) : ~items[j].match
         IN  [pos |-> i, url |-> items[i].url]

\* AfterTrigger without the check of queue_url
AfterTrigger_Unchecked(url) ==
    /\ queue_url' = url
    /\ Goto("queue")

\* orchestrator, lines 692-695: continue with the handle or stop
AfterTrigger(url) ==
    /\ queue_url' = url
    /\ IF TruthyUrl(url) THEN Goto("queue") ELSE Finish("trigger_failed")

\* trigger_jenkins_build returns: to run_automation, or to
\* test_jenkins_trigger (lines 179-189) and main (lines 813-825)
TriggerReturn(url) ==
    IF Mode(args) = "test_jenkins"
      THEN /\ queue_url' = url
           /\ Finish(IF TruthyUrl(url) THEN "test_passed" ELSE "test_failed")
      ELSE AfterTrigger(url)

\* trigger_direct going to the fallbacks whatever the Location header
trigger_direct_IgnoreLocation(status, loc) ==
    IF status = 0 \/ ~Is2xx(status) THEN "fail" ELSE "fallback"

\* lines 237-245 and 284-292: what trigger_jenkins_build does with the
\* response of the POST: "fail" (return None), "location" (return the
\* Location header) or "fallback".  status 0 stands for requests.post raising.
trigger_direct(status, loc) ==
    IF status = 0 \/ ~Is2xx(status) THEN "fail"
    ELSE IF TruthyUrl(loc) THEN "location"
    ELSE "fallback"

\* lines 233-245 and 284-292: the POST
TriggerPost ==
    /\ pc = "trigger"
    /\ stages' = Append(stages, "Trigger")
    /\ ops' = ops \cup {"post"}
    /\ \E status \in Statuses \cup {0}, loc \in {NoHandle, QueueItemUrl(0)} :
         /\ postStatus' = IF status = 0 THEN NoneNum ELSE status
         /\ location' = IF status = 0 THEN NoHandle ELSE loc
         /\ IF trigger_direct(status, loc) = "fail"
              THEN TriggerReturn(NoHandle)
              ELSE IF trigger_direct(status, loc) = "location"
                     THEN TriggerReturn(loc)
                     ELSE Goto("trigger_listing") /\ UNCHANGED queue_url
    /\ UNCHANGED <<warned, lastNumber, listedFirst,
                   markerVars, gateVars, queueVars, buildVars, loopVars, uiVars>>
    /\ UNCHANGED spinVars
    /\ UNCHANGED repoVars

\* lines 253-265: fallback 1, the pending-queue listing.
\* status 0 stands for the request or the JSON decoding raising.
TriggerListing ==
    /\ pc = "trigger_listing"
    /\ ops' = ops \cup {"listing"}
    /\ \E status \in Statuses \cup {0}, items \in Listings :
         /\ listedFirst' = IF status # 0 /\ RespOk(status) THEN FirstEntry(items) ELSE NoEntry
         /\ IF status # 0 /\ RespOk(status) /\ FirstMatch(items) # 0
              THEN TriggerReturn(items[FirstMatch(items)].url)
              ELSE Goto("trigger_lastbuild") /\ UNCHANGED queue_url
    /\ UNCHANGED <<stages, warned, postStatus, location, lastNumber,
                   markerVars, gateVars, queueVars, buildVars, loopVars, uiVars>>
    /\ UNCHANGED spinVars
    /\ UNCHANGED repoVars

\* lines 267-282: fallback 2, the last known build.
\* last_build is lastBuild.number: None, 0 or a build number.
TriggerLastBuild ==
    /\ pc = "trigger_lastbuild"
    /\ ops' = ops \cup {"lastBuild"}
    /\ \E status \in Statuses \cup {0}, last_build \in {NoneNum} \cup (0..MaxBuildNumber) :
         /\ lastNumber' = IF status # 0 /\ RespOk(status) THEN last_build ELSE NoneNum
         /\ IF status # 0 /\ RespOk(status) /\ TruthyNum(last_build)
              THEN warned' = TRUE /\ TriggerReturn(BuildUrl(last_build))
              ELSE warned' = warned /\ TriggerReturn(NoHandle)
    /\ UNCHANGED <<stages, postStatus, location, listedFirst,
                   markerVars, gateVars, queueVars, buildVars, loopVars, uiVars>>
    /\ UNCHANGED spinVars
    /\ UNCHANGED repoVars

\* ------------------------------------------------------------ polling loop
\* LoopGoesOn letting an iteration begin when the duration has just elapsed
LoopGoesOn_Inclusive(elapsed, duration) == elapsed <= duration

\* the test of the loop of log_with_spinner, line 163: elapsed is
\* time.time() - start_time, with start_time taken once before the loop
LoopGoesOn(elapsed, duration) == elapsed < duration

\* ---------------------------------------------------------- Queue Resolver
\* seconds a status request can take
ReqLatency == {0, 60}

\* seconds between the enqueueing of the item and start_time
QueuedBefore == {5}

\* a status response of the handle: status 0 stands for the request or the
\* JSON decoding raising; executable is executable.number (None: key missing
\* or null); inQueueSince is in ms, relative to start_time. Only a queue
\* item has these two keys: under the url of a build (the handle of line 280)
\* the server gives the record of the build, or an error
QueueResponses(url, since) ==
    {[status |-> st, executable |-> NoneNum, inQueueSince |-> NoneNum] : st \in Statuses \cup {0}}
    \cup IF url.kind = "queueItem"
           THEN {[status |-> 200, executable |-> e, inQueueSince |-> since] :
                    e \in {NoneNum} \cup (1..MaxBuildNumber)}
           ELSE {}

\* what a status poll met: the request or the decoding raised, a status
\* outside 200-299, or a decoded answer with or without the awaited value
PollKind(status, done) ==
    IF status = 0 THEN "raised"
    ELSE IF ~(200 <= status /\ status <= 299) THEN "error"
    ELSE IF done THEN "done"
    ELSE "waiting"

\* lines 319-322: the minutes the item has been queued for at time `now`
QueuedMinutes(in_queue_since, now) ==
    ((now * 1000 - in_queue_since) \div 1000) \div 60

\* check_queue without the test against last_reported_minute
check_queue_NoLastReported(resp, now, last) ==
    IF Is2xx(resp.status)
      THEN IF ~TruthyNum(resp.executable)
             THEN LET in_queue_since == resp.inQueueSince
                      mins == QueuedMinutes(in_queue_since, now)
                  IN  IF /\ TruthyNum(in_queue_since)
                         /\ mins > 0
                         /\ mins % NotifyEvery = 0
                        THEN [ret |-> 0, last |-> mins, notified |-> TRUE]
                        ELSE [ret |-> 0, last |-> last, notified |-> FALSE]
             ELSE [ret |-> resp.executable, last |-> last, notified |-> FALSE]
      ELSE [ret |-> 0, last |-> last, notified |-> FALSE]

\* check_queue going on to wait when the executable is there (it returns
\* False where line 351 returns the number)
check_queue_KeepsWaiting(resp, now, last) ==
    [ret |-> 0, last |-> last, notified |-> FALSE]

\* check_queue, lines 310-352, called at time `now`: its return value
\* (0 for False), the new last_reported_minute, and whether it logged the
\* "Still in queue" notification
check_queue(resp, now, last) ==
    IF Is2xx(resp.status)
      THEN IF ~TruthyNum(resp.executable)
             THEN LET in_queue_since == resp.inQueueSince
                      mins == QueuedMinutes(in_queue_since, now)
                  IN  IF /\ TruthyNum(in_queue_since)
                         /\ mins > 0
                         /\ mins % NotifyEvery = 0
                         /\ mins # last
                        THEN [ret |-> 0, last |-> mins, notified |-> TRUE]
                        ELSE [ret |-> 0, last |-> last, notified |-> FALSE]
             ELSE [ret |-> resp.executable, last |-> last, notified |-> FALSE]
      ELSE [ret |-> 0, last |-> last, notified |-> FALSE]

\* AfterQueue without the check of build_number
AfterQueue_Unchecked(number) ==
    /\ build_number' = number
    /\ clock' = 0
    /\ last_reported_minute' = NoneNum
    /\ inQueueSince' = NoneNum
    /\ noteBucket' = 0
    /\ noteCount' = 0
    /\ lastPollNote' = "none"
    /\ Goto("build")

\* orchestrator, lines 698-701: continue with the build number or stop;
\* the locals of the resolver are gone
AfterQueue(number) ==
    /\ build_number' = number
    /\ clock' = 0
    /\ last_reported_minute' = NoneNum
    /\ inQueueSince' = NoneNum
    /\ noteBucket' = 0
    /\ noteCount' = 0
    /\ lastPollNote' = "none"
    /\ IF TruthyNum(number) THEN Goto("build") ELSE Finish("queue_failed")

\* lines 294-308: entry of get_build_number_from_queue
QueueStart ==
    /\ pc = "queue"
    /\ Goto("queue_loop")
    /\ stages' = Append(stages, "Queue")
    /\ clock' = 0
    /\ loopExpired' = FALSE
    /\ lateIteration' = FALSE
    /\ finalChecks' = 0
    /\ endPoll' = "None"
    /\ queuePolls' = 0
    /\ pollsOnCue' = FALSE
    /\ last_reported_minute' = NoneNum
    /\ \E q \in QueuedBefore : inQueueSince' = 0 - q * 1000
    /\ noteBucket' = 0
    /\ noteCount' = 0
    /\ lastPollNote' = "none"
    /\ firstReported' = NoneNum
    /\ UNCHANGED <<ops, build_number, markerVars, gateVars, trigVars, buildVars, uiVars>>
    /\ UNCHANGED spinVars
    /\ UNCHANGED repoVars

\* the first execution number reported: `first` once there is one, else
\* what the response at hand carries
FirstOf(first, executable) ==
    IF TruthyNum(first) THEN first ELSE executable

\* the 15-minute bucket of queued time a minute lies in
Bucket(mins) == mins \div NotifyEvery

\* the response reports the item pending, with its enqueue timestamp
Pending(resp) ==
    Is2xx(resp.status) /\ ~TruthyNum(resp.executable) /\ TruthyNum(resp.inQueueSince)

\* what a check_queue at time `now` did about the notification, against the
\* buckets notified so far
PollNote(resp, now, notified) ==
    IF notified THEN "emitted"
    ELSE IF ~Pending(resp) THEN "none"
    ELSE IF Bucket(QueuedMinutes(resp.inQueueSince, now)) = 0 THEN "early"
    ELSE IF Bucket(QueuedMinutes(resp.inQueueSince, now)) = noteBucket /\ noteCount > 0
           THEN "repeat"
    ELSE "missed"

\* what one iteration of the loop of log_with_spinner comes to, for a
\* response that takes d seconds: check_queue raised, returned the number,
\* or returned False at time `now` with the new last_reported_minute
QueueIteration(resp, d) ==
    LET now == clock + d
        r == check_queue(resp, now, last_reported_minute)
    IN  IF resp.status = 0
          THEN [end |-> "raised", ret |-> NoneNum, now |-> 0, last |-> NoneNum,
                exec |-> NoneNum,
                notified |-> FALSE, bucket |-> 0, note |-> "none"]
          ELSE IF TruthyNum(r.ret)
                 THEN [end |-> "done", ret |-> r.ret, now |-> 0, last |-> NoneNum,
                       exec |-> resp.executable,
                       notified |-> FALSE, bucket |-> 0, note |-> "none"]
                 ELSE [end |-> "waiting", ret |-> 0, now |-> now, last |-> r.last,
                       exec |-> resp.executable,
                       notified |-> r.notified,
                       bucket |-> IF Pending(resp)
                                    THEN Bucket(QueuedMinutes(resp.inQueueSince, now))
                                    ELSE 0,
                       note |-> PollNote(resp, now, r.notified)]

\* one iteration of log_with_spinner (lines 163-169) around check_queue
QueuePoll ==
    /\ pc = "queue_loop"
    /\ LoopGoesOn(clock, QueueTimeout)
    /\ lateIteration' = (lateIteration \/ clock >= QueueTimeout)
    /\ ops' = ops \cup {"queuePoll"}
    /\ \E it \in {QueueIteration(resp, d) :
                      resp \in QueueResponses(queue_url, inQueueSince), d \in ReqLatency} :
         /\ firstReported' = FirstOf(firstReported, it.exec)
         /\ IF it.end = "raised"
             THEN /\ AfterQueue(NoneNum)
                  /\ endPoll' = "raised"
                  /\ queuePolls' = 0
                  /\ pollsOnCue' = FALSE
             ELSE IF it.end = "done"
                    THEN /\ AfterQueue(it.ret)
                         /\ endPoll' = "done"
                         /\ queuePolls' = 0
                         /\ pollsOnCue' = (queuePolls + 1 = 2)
                    ELSE /\ clock' = it.now + QueueInterval
                         /\ last_reported_minute' = it.last
                         /\ Stay
                         /\ queuePolls' = IF queuePolls < MaxCountedPolls
                                            THEN queuePolls + 1 ELSE queuePolls
                         /\ noteBucket' = IF it.notified THEN it.bucket ELSE noteBucket
                         /\ noteCount' = IF ~it.notified THEN noteCount
                                          ELSE IF it.bucket = noteBucket THEN noteCount + 1
                                          ELSE 1
                         /\ lastPollNote' = it.note
                         /\ UNCHANGED <<build_number, inQueueSince, endPoll, pollsOnCue>>
    /\ UNCHANGED <<stages, loopExpired, finalChecks,
                   markerVars, gateVars, trigVars, buildVars, uiVars>>
    /\ UNCHANGED spinVars
    /\ UNCHANGED repoVars

\* lines 359-371: the loop ran out; one final check
QueueFinal ==
    /\ pc = "queue_loop"
    /\ ~LoopGoesOn(clock, QueueTimeout)
    /\ ops' = ops \cup {"queuePoll"}
    /\ loopExpired' = TRUE
    /\ finalChecks' = finalChecks + 1
    /\ lateIteration' = lateIteration
    /\ \E resp \in QueueResponses(queue_url, inQueueSince) :
         /\ endPoll' = PollKind(resp.status, TruthyNum(resp.executable))
         /\ queuePolls' = 0
         /\ pollsOnCue' = FALSE
         /\ firstReported' = FirstOf(firstReported, resp.executable)
         /\ IF Is2xx(resp.status) /\ TruthyNum(resp.executable)
              THEN AfterQueue(resp.executable)
              ELSE AfterQueue(NoneNum)
    /\ UNCHANGED <<stages, markerVars, gateVars, trigVars, buildVars, uiVars>>
    /\ UNCHANGED spinVars
    /\ UNCHANGED repoVars

\* ------------------------------------------------------ Completion Watcher
MaxWaitSeconds == MaxWaitHours * 3600

\* data.get("result", "UNKNOWN"); "null" is a JSON null
Results == {"SUCCESS", "FAILURE", "UNKNOWN", "null"}

\* status responses of the build: status 0 stands for the request or the
\* JSON decoding raising; building is data.get("building", True)
BuildResponses ==
    {[status |-> st, building |-> TRUE, result |-> "null"] : st \in Statuses \cup {0}}
    \cup {[status |-> 200, building |-> FALSE, result |-> r] : r \in Results}

\* line i of a generated console log: blank when every is not 0 and divides i
LogLine(i, every) ==
    IF every # 0 /\ i % every = 0
      THEN IF i % 2 = 0 THEN <<"sp">> ELSE <<>>
      ELSE <<ToString(i)>>

RECURSIVE JoinLines(_, _, _)
JoinLines(i, n, every) ==
    IF i > n THEN <<>>
    ELSE IF i = n THEN LogLine(i, every)
    ELSE LogLine(i, every) \o <<"nl">> \o JoinLines(i + 1, n, every)

\* the console logs the build system can serve
ConsoleTexts ==
    {JoinLines(1, n, every) \o trail :
        n \in {0, 1} \cup (TailLines..MaxLogLines), every \in {0, 1, 3}, trail \in {<<>>, <<"nl">>}}

ConsoleResponses ==
    {[status |-> st, text |-> <<>>] : st \in (Statuses \cup {0}) \ {200}}
    \cup {[status |-> 200, text |-> t] : t \in ConsoleTexts}

\* str.split("\n")
RECURSIVE Split(_)
Split(text) ==
    IF \A i \in 1..Len(text) : text[i] # "nl"
      THEN <<text>>
      ELSE LET i == CHOOSE k \in 1..Len(text) :
                       text[k] = "nl" /\ \A j \in 1..(k - 1) : text[j] # "nl"
           IN  <<SubSeq(text, 1, i - 1)>> \o Split(SubSeq(text, i + 1, Len(text)))

\* lines[:n], the head instead of the tail
LastLines_Head(lines, n) ==
    SubSeq(lines, 1, IF Len(lines) > n THEN n ELSE Len(lines))

\* lines[-n:]
LastLines(lines, n) ==
    SubSeq(lines, IF Len(lines) > n THEN Len(lines) - n + 1 ELSE 1, Len(lines))

\* if line.strip()
NonBlank(line) == Strip(line) # <<>>

\* lines 412-417: the lines of the console text that are logged
LogTail(text) == SelectSeq(LastLines(Split(text), TailLines), NonBlank)

\* LogTail of each console text that can be served
LoggedTail == [t \in ConsoleTexts |-> LogTail(t)]

\* NotifyDue letting every poll of a running build notify
NotifyDue_EveryPoll(now, last_poll) == TRUE

\* the status-notification gate of check_build, line 422
NotifyDue(now, last_poll) == now - last_poll >= NotifyGap

\* check_build, lines 389-435, up to the console fetch: its return value
check_build(resp) ==
    IF Is2xx(resp.status)
      THEN IF ~resp.building
             THEN IF resp.result = "SUCCESS" THEN "True" ELSE "FAILED"
             ELSE "False"
      ELSE "ERROR"

\* AfterBuild without the check of build_success
AfterBuild_Unchecked(success) ==
    /\ build_success' = success
    /\ clock' = 0
    /\ last_poll_time' = 0
    /\ lastNoteAt' = 0
    /\ Goto("ui")

\* orchestrator, lines 704-710: continue with the UI automation or stop;
\* the locals of the watcher are gone
AfterBuild(success) ==
    /\ build_success' = success
    /\ clock' = 0
    /\ last_poll_time' = 0
    /\ lastNoteAt' = 0
    /\ IF success = "True" THEN Goto("ui") ELSE Finish("build_failed")

\* lines 403-418: the console fetch after a terminal result other than SUCCESS.
\* status 0 of the console response stands for the request raising.
FetchConsole ==
    /\ ops' = ops \cup {"buildPoll", "console"}
    /\ \E cresp \in ConsoleResponses :
         /\ consoleText' = IF Is2xx(cresp.status) THEN cresp.text ELSE NoneText
         /\ consoleTail' = IF Is2xx(cresp.status) THEN LoggedTail[cresp.text] ELSE <<>>

\* lines 379-387: entry of wait_for_build_completion
BuildStart ==
    /\ pc = "build"
    /\ Goto("build_loop")
    /\ stages' = Append(stages, "Build")
    /\ clock' = 0
    /\ loopExpired' = FALSE
    /\ lateIteration' = FALSE
    /\ finalChecks' = 0
    /\ endPoll' = "None"
    /\ pollsOnCue' = pollsOnCue
    /\ last_poll_time' = 0
    /\ lastNoteAt' = 0
    /\ noteTooSoon' = FALSE
    /\ buildPolls' = 0
    /\ UNCHANGED <<ops, build_success, observed, consoleText, consoleTail,
                   markerVars, gateVars, trigVars, queueVars, uiVars>>
    /\ UNCHANGED spinVars
    /\ UNCHANGED repoVars

\* WaitResult returning the truth value of the final check's result
\* whatever it is, instead of `final_result is True`
WaitResult_FinalAnything(resp, final) ==
    LET r == check_build(resp) IN
    IF resp.status = 0 THEN "False"
    ELSE IF r = "True" THEN "True"
    ELSE IF r \in {"FAILED", "ERROR"} THEN "False"
    ELSE IF final THEN "True"
    ELSE "None"

\* what wait_for_build_completion returns for the result of a check_build
\* (lines 446-453 and 455-457); "None": it keeps waiting.  final: the check
\* is the one after the loop
WaitResult(resp, final) ==
    LET r == check_build(resp) IN
    IF resp.status = 0 THEN "False"
    ELSE IF r = "True" THEN "True"
    ELSE IF r \in {"FAILED", "ERROR"} THEN "False"
    ELSE IF final THEN "False"
    ELSE "None"

\* one call of check_build at time `now` and what wait_for_build_completion
\* does with its result; the time matters only when the wait goes on
BuildCheck(resp, now, final) ==
    LET r == check_build(resp)
        w == WaitResult(resp, final)
    IN
    /\ buildPolls' = buildPolls + 1
    /\ noteTooSoon' = (noteTooSoon \/ (/\ r = "False"
                                        /\ NotifyDue(now, last_poll_time)
                                        /\ now - lastNoteAt < NotifyGap))
    /\ observed' = IF resp.status # 0 /\ r \in {"True", "FAILED"}
                     THEN resp.result ELSE observed
    /\ IF resp.status # 0 /\ r = "FAILED"
         THEN FetchConsole
         ELSE /\ ops' = ops \cup {"buildPoll"}
              /\ UNCHANGED <<consoleText, consoleTail>>
    /\ IF w # "None"
         THEN /\ AfterBuild(w)
              /\ endPoll' = PollKind(resp.status, ~resp.building)
              /\ pollsOnCue' = (pollsOnCue /\ w = "True" /\ buildPolls + 1 = 3)
         ELSE /\ clock' = now + BuildInterval
              /\ endPoll' = endPoll
              /\ pollsOnCue' = pollsOnCue
              /\ last_poll_time' = IF NotifyDue(now, last_poll_time)
                                     THEN now ELSE last_poll_time
              /\ lastNoteAt' = IF NotifyDue(now, last_poll_time) THEN now ELSE lastNoteAt
              /\ Stay
              /\ UNCHANGED build_success

\* one iteration of log_with_spinner (lines 163-169) around check_build
BuildPoll ==
    /\ pc = "build_loop"
    /\ LoopGoesOn(clock, MaxWaitSeconds)
    /\ lateIteration' = (lateIteration \/ clock >= MaxWaitSeconds)
    /\ \E resp \in BuildResponses :
         \E d \in IF WaitResult(resp, FALSE) = "None" THEN ReqLatency ELSE {0} :
            BuildCheck(resp, clock + d, FALSE)
    /\ UNCHANGED <<stages, loopExpired, finalChecks,
                   markerVars, gateVars, trigVars, queueVars, uiVars>>
    /\ UNCHANGED spinVars
    /\ UNCHANGED repoVars

\* lines 451-453: the loop ran out; one final check
BuildFinal ==
    /\ pc = "build_loop"
    /\ ~LoopGoesOn(clock, MaxWaitSeconds)
    /\ loopExpired' = TRUE
    /\ finalChecks' = finalChecks + 1
    /\ lateIteration' = lateIteration
    /\ \E resp \in BuildResponses : BuildCheck(resp, clock, TRUE)
    /\ UNCHANGED <<stages, markerVars, gateVars, trigVars, queueVars, uiVars>>
    /\ UNCHANGED spinVars
    /\ UNCHANGED repoVars

\* ---------------------------------------------------- UI Automation Driver
\* UiSteps with the option of the branch dropdown clicked before the
\* dropdown is opened
UiSteps_OptionFirst == <<
    [name |-> "navigate",           kind |-> "get"],
    [name |-> "login",              kind |-> "click"],
    [name |-> "loginWait",          kind |-> "wait"],
    [name |-> "executionsTab",      kind |-> "click"],
    [name |-> "createJob",          kind |-> "click"],
    [name |-> "branchOption",       kind |-> "click"],
    [name |-> "branchDropdown",     kind |-> "click"],
    [name |-> "versionDropdown",    kind |-> "click"],
    [name |-> "versionOption",      kind |-> "click"],
    [name |-> "testPlanSearchIcon", kind |-> "click"],
    [name |-> "searchText",         kind |-> "fill"],
    [name |-> "testPlanResult",     kind |-> "click"],
    [name |-> "baseUrlOk",          kind |-> "click"],
    [name |-> "ownerEmail",         kind |-> "fill"],
    [name |-> "usageDropdown",      kind |-> "click"],
    [name |-> "usageOption",        kind |-> "click"],
    [name |-> "submit",             kind |-> "click"],
    [name |-> "confirmation",       kind |-> "confirm"],
    [name |-> "finalOk",            kind |-> "click"] >>

\* the form sequence of execute_tem_automation, lines 526-654, in order:
\* the step's name and the kind of interaction
UiSteps == <<
    [name |-> "navigate",           kind |-> "get"],
    [name |-> "login",              kind |-> "click"],
    [name |-> "loginWait",          kind |-> "wait"],
    [name |-> "executionsTab",      kind |-> "click"],
    [name |-> "createJob",          kind |-> "click"],
    [name |-> "branchDropdown",     kind |-> "click"],
    [name |-> "branchOption",       kind |-> "click"],
    [name |-> "versionDropdown",    kind |-> "click"],
    [name |-> "versionOption",      kind |-> "click"],
    [name |-> "testPlanSearchIcon", kind |-> "click"],
    [name |-> "searchText",         kind |-> "fill"],
    [name |-> "testPlanResult",     kind |-> "click"],
    [name |-> "baseUrlOk",          kind |-> "click"],
    [name |-> "ownerEmail",         kind |-> "fill"],
    [name |-> "usageDropdown",      kind |-> "click"],
    [name |-> "usageOption",        kind |-> "click"],
    [name |-> "submit",             kind |-> "click"],
    [name |-> "confirmation",       kind |-> "confirm"],
    [name |-> "finalOk",            kind |-> "click"] >>

StepIndex(n) == CHOOSE i \in 1..Len(UiSteps) : UiSteps[i].name = n

\* what each operation of one safe_click does if safe_click gets to it: the
\* busy-overlay wait, the wait for the target, the direct click, and the two
\* scripts of the forced click; "error" is an exception other than the ones
\* safe_click handles
ClickOutcomes ==
    [busy : {"cleared", "timeout", "error"},
     target : {"clickable", "timeout", "error"},
     direct : {"ok", "intercepted", "notInteractable", "timeout", "error"},
     scroll : {"ok", "raised"},
     script : {"ok", "raised"}]

\* the direct click raised one of the two exceptions of line 499
Rejected(c) == c.direct \in {"intercepted", "notInteractable"}

\* what a safe_click did: whether it logged the busy-overlay warning, what
\* its wait for the target met ("None": it did not get to it), the direct
\* clicks it made, whether the direct click was rejected, the forced
\* attempts made, whether a forced attempt went through, and ret: "True",
\* "False", or "raise" when the exception leaves safe_click
Clicked(busyWarned, target, direct, rejected, forced, forcedOk, ret) ==
    [warned |-> busyWarned, target |-> target, direct |-> direct,
     rejected |-> rejected, forced |-> forced, forcedOk |-> forcedOk, ret |-> ret]

\* safe_click returning False on a rejected click without the forced attempt
safe_click_NoForced(c) ==
    LET busyWarned == c.busy = "timeout" IN
    IF c.busy = "error" THEN Clicked(FALSE, "None", 0, FALSE, 0, FALSE, "raise")
    ELSE IF c.target = "timeout" THEN Clicked(busyWarned, "timeout", 0, FALSE, 0, FALSE, "False")
    ELSE IF c.target = "error" THEN Clicked(busyWarned, "error", 0, FALSE, 0, FALSE, "raise")
    ELSE IF c.direct = "ok" THEN Clicked(busyWarned, "clickable", 1, FALSE, 0, FALSE, "True")
    ELSE IF Rejected(c) THEN Clicked(busyWarned, "clickable", 1, TRUE, 0, FALSE, "False")
    ELSE IF c.direct = "timeout" THEN Clicked(busyWarned, "clickable", 1, FALSE, 0, FALSE, "False")
    ELSE Clicked(busyWarned, "clickable", 1, FALSE, 0, FALSE, "raise")

\* safe_click with the timeout of the busy-overlay wait caught by the outer
\* handler of line 511: the step fails without waiting for the target
safe_click_BusyFatal(c) ==
    LET busyWarned == c.busy = "timeout" IN
    IF c.busy = "error" THEN Clicked(FALSE, "None", 0, FALSE, 0, FALSE, "raise")
    ELSE IF busyWarned THEN Clicked(TRUE, "None", 0, FALSE, 0, FALSE, "False")
    ELSE IF c.target = "timeout" THEN Clicked(busyWarned, "timeout", 0, FALSE, 0, FALSE, "False")
    ELSE IF c.target = "error" THEN Clicked(busyWarned, "error", 0, FALSE, 0, FALSE, "raise")
    ELSE IF c.direct = "ok" THEN Clicked(busyWarned, "clickable", 1, FALSE, 0, FALSE, "True")
    ELSE IF Rejected(c)
           THEN LET js == c.scroll = "ok" /\ c.script = "ok"
                IN  Clicked(busyWarned, "clickable", 1, TRUE, 1, js, IF js THEN "True" ELSE "False")
    ELSE IF c.direct = "timeout" THEN Clicked(busyWarned, "clickable", 1, FALSE, 0, FALSE, "False")
    ELSE Clicked(busyWarned, "clickable", 1, FALSE, 0, FALSE, "raise")

\* safe_click, lines 476-513
safe_click(c) ==
    LET busyWarned == c.busy = "timeout" IN
    IF c.busy = "error" THEN Clicked(FALSE, "None", 0, FALSE, 0, FALSE, "raise")
    ELSE IF c.target = "timeout" THEN Clicked(busyWarned, "timeout", 0, FALSE, 0, FALSE, "False")
    ELSE IF c.target = "error" THEN Clicked(busyWarned, "error", 0, FALSE, 0, FALSE, "raise")
    ELSE IF c.direct = "ok" THEN Clicked(busyWarned, "clickable", 1, FALSE, 0, FALSE, "True")
    ELSE IF Rejected(c)
           THEN LET js == c.scroll = "ok" /\ c.script = "ok"
                IN  Clicked(busyWarned, "clickable", 1, TRUE, 1, js, IF js THEN "True" ELSE "False")
    ELSE IF c.direct = "timeout" THEN Clicked(busyWarned, "clickable", 1, FALSE, 0, FALSE, "False")
    ELSE Clicked(busyWarned, "clickable", 1, FALSE, 0, FALSE, "raise")

\* AfterUi without the check of tem_success
AfterUi_Unchecked(success) ==
    /\ tem_success' = success
    /\ Goto("mark")

\* orchestrator, lines 713-716: continue with the marker or stop
AfterUi(success) ==
    /\ tem_success' = success
    /\ IF success = "True" THEN Goto("mark") ELSE Finish("tem_failed")

\* UiReturn going on as run_automation does after a test of the UI automation
UiReturn_AsFullRun(success) ==
    AfterUi(success)

\* execute_tem_automation returns: to run_automation, or to
\* test_tem_selenium (lines 191-195) and main (lines 827-839)
UiReturn(success) ==
    IF Mode(args) = "test_tem"
      THEN /\ tem_success' = success
           /\ Finish(IF success = "True" THEN "test_passed" ELSE "test_failed")
      ELSE AfterUi(success)

\* lines 517-522: setup_selenium_driver and the early return without a driver
UiStart ==
    /\ pc = "ui"
    /\ stages' = Append(stages, "UI")
    /\ \E started \in BOOLEAN :
         IF started
           THEN /\ driver' = "live"
                /\ ops' = ops \cup {"browser"}
                /\ uiStep' = 1
                /\ Goto("ui_steps")
                /\ UNCHANGED tem_success
           ELSE /\ UiReturn("False")
                /\ UNCHANGED <<driver, ops, uiStep>>
    /\ attempted' = <<>>
    /\ loopExpired' = FALSE
    /\ lateIteration' = FALSE
    /\ finalChecks' = 0
    /\ endPoll' = "None"
    /\ pollsOnCue' = pollsOnCue
    /\ buildPolls' = 0
    /\ UNCHANGED <<clock, clickFailed, lastClick, submitOk, uiPending,
                   markerVars, gateVars, trigVars, queueVars,
                   build_success, last_poll_time, observed, consoleText, consoleTail,
                   lastNoteAt, noteTooSoon>>
    /\ UNCHANGED spinVars
    /\ UNCHANGED repoVars

\* the sequence goes on to the step after uiStep, or returns True after the last
UiAdvance ==
    IF uiStep = Len(UiSteps)
      THEN /\ uiPending' = "True"
           /\ Goto("ui_cleanup")
           /\ UNCHANGED uiStep
      ELSE /\ uiStep' = uiStep + 1
           /\ Goto("ui_steps")
           /\ UNCHANGED uiPending

\* an exception reaches `except Exception`, lines 660-662
UiAbort ==
    /\ uiPending' = "False"
    /\ Goto("ui_cleanup")
    /\ UNCHANGED uiStep

\* what a safe_click can do, over everything it can meet
ClickResults == {safe_click(c) : c \in ClickOutcomes}

\* a step that is a safe_click call: its result is not looked at
UiClick ==
    /\ pc = "ui_steps"
    /\ UiSteps[uiStep].kind = "click"
    /\ attempted' = Append(attempted, UiSteps[uiStep].name)
    /\ \E clicked \in ClickResults :
         /\ lastClick' = clicked
         /\ clickFailed' = (clickFailed \/ clicked.ret = "False")
         /\ submitOk' = IF UiSteps[uiStep].name = "submit"
                          THEN clicked.ret = "True" ELSE submitOk
         /\ IF clicked.ret = "raise" THEN UiAbort ELSE UiAdvance
    /\ UNCHANGED <<stages, ops, tem_success, driver,
                   markerVars, gateVars, trigVars, queueVars, buildVars, loopVars>>
    /\ UNCHANGED spinVars
    /\ UNCHANGED repoVars

\* a step that is driver.get, wait.until or a fill: it raises or goes on.
\* The confirmation wait (lines 636-654) goes on after a TimeoutException too.
UiOther ==
    /\ pc = "ui_steps"
    /\ UiSteps[uiStep].kind # "click"
    /\ attempted' = Append(attempted, UiSteps[uiStep].name)
    /\ \E res \in {"ok", "timeout", "error"} :
         /\ UiSteps[uiStep].kind = "get" => res # "timeout"
         /\ IF res = "ok" \/ (res = "timeout" /\ UiSteps[uiStep].kind = "confirm")
              THEN UiAdvance
              ELSE UiAbort
    /\ UNCHANGED <<stages, ops, tem_success, driver, clickFailed, lastClick, submitOk,
                   markerVars, gateVars, trigVars, queueVars, buildVars, loopVars>>
    /\ UNCHANGED spinVars
    /\ UNCHANGED repoVars

\* lines 663-667: the cleanup pause and driver.quit(), then the return to the
\* orchestrator; an exception of quit() reaches run_automation, line 728
UiCleanup ==
    /\ pc = "ui_cleanup"
    /\ \E quit_ok \in BOOLEAN :
         IF quit_ok
           THEN /\ driver' = "quit"
                /\ IF uiPending = "interrupt"
                     THEN Finish(InterruptOutcome) /\ UNCHANGED tem_success
                     ELSE UiReturn(uiPending)
           ELSE /\ driver' = "quitRaised"
                /\ Finish(ErrorOutcome)
                /\ UNCHANGED tem_success
    /\ uiStep' = 0
    /\ attempted' = <<>>
    /\ lastClick' = NoClick
    /\ UNCHANGED <<stages, ops, clickFailed, submitOk, uiPending,
                   markerVars, gateVars, trigVars, queueVars, buildVars, loopVars>>
    /\ UNCHANGED spinVars
    /\ UNCHANGED repoVars

\* ----------------------------------------------------------- marker write
\* update_processed_commit writing the revision origin/master is at when
\* the write is made, not the one it is handed
update_processed_commit_CurrentHead(commit_hash, how) ==
    IF how = "ok" THEN (IF headMoved THEN <<NewRevision>> ELSE commit_hash)
    ELSE IF how = "openFailed" THEN markerFile
    ELSE <<>>

\* update_processed_commit opening the marker file to append to it
update_processed_commit_Append(commit_hash, how) ==
    IF how = "ok" THEN (IF markerFile = NoFile THEN commit_hash ELSE markerFile \o commit_hash)
    ELSE markerFile

\* update_processed_commit, lines 669-678: the file after the call.
\* how: "ok", "openFailed" (open raised), "writeFailed" (write raised after
\* open had truncated the file); both exceptions end in the warning of line 678
update_processed_commit(commit_hash, how) ==
    IF how = "ok" THEN commit_hash
    ELSE IF how = "openFailed" THEN markerFile
    ELSE <<>>

\* run_automation, lines 718-724
Mark ==
    /\ pc = "mark"
    /\ stages' = Append(stages, "Mark")
    /\ ops' = ops \cup {"markerWrite"}
    /\ \E how \in {"ok", "openFailed", "writeFailed"} :
         /\ markerFile' = update_processed_commit(new_commit, how)
         /\ written' = how
    /\ Finish("completed")
    /\ UNCHANGED <<markerAtStart, prevRun, gateVars, trigVars, queueVars, buildVars, loopVars,
                   uiVars>>
    /\ UNCHANGED spinVars
    /\ UNCHANGED repoVars

\* ------------------------------------------------------ external interrupt
\* Interrupt with the interrupt caught by `except Exception`, line 728
Interrupt_AsError ==
    /\ pc \in {"trigger", "trigger_listing", "trigger_lastbuild", "queue",
               "queue_loop", "build", "build_loop", "ui"}
    /\ Interrupted("unexpected_error")
    /\ clock' = 0
    /\ UNCHANGED <<stages, ops, loopExpired, lateIteration, finalChecks, endPoll, pollsOnCue,
                   markerVars, gateVars, trigVars, queueVars,
                   buildVars, uiVars>>
    /\ UNCHANGED spinVars
    /\ UNCHANGED repoVars

\* KeyboardInterrupt while a stage inside the try of run_automation runs
\* (lines 690-727); the stages' own `except Exception` do not catch it
Interrupt ==
    /\ pc \in {"trigger", "trigger_listing", "trigger_lastbuild", "queue",
               "queue_loop", "build", "build_loop", "ui"}
    /\ Interrupted(InterruptOutcome)
    /\ clock' = 0
    /\ UNCHANGED <<stages, ops, loopExpired, lateIteration, finalChecks, endPoll, pollsOnCue,
                   markerVars, gateVars, trigVars, queueVars,
                   buildVars, uiVars>>
    /\ UNCHANGED spinVars
    /\ UNCHANGED repoVars

\* KeyboardInterrupt during the form sequence: the finally block runs
InterruptUi ==
    /\ pc = "ui_steps"
    /\ uiPending' = "interrupt"
    /\ Step("ui_cleanup", outcome, exitStatus, pc)
    /\ UNCHANGED <<stages, ops, tem_success, driver, uiStep, attempted, clickFailed, lastClick, submitOk,
                   markerVars, gateVars, trigVars, queueVars, buildVars, loopVars>>
    /\ UNCHANGED spinVars
    /\ UNCHANGED repoVars

\* KeyboardInterrupt during the cleanup pause (line 666): quit() is not reached
InterruptCleanup ==
    /\ pc = "ui_cleanup"
    /\ Interrupted(InterruptOutcome)
    /\ uiStep' = 0
    /\ attempted' = <<>>
    /\ lastClick' = NoClick
    /\ UNCHANGED <<stages, ops, tem_success, driver, clickFailed, submitOk, uiPending,
                   markerVars, gateVars, trigVars, queueVars, buildVars, loopVars>>
    /\ UNCHANGED spinVars
    /\ UNCHANGED repoVars

\* KeyboardInterrupt during the marker write: before open(), or after it
\* truncated the file
InterruptMark ==
    /\ pc = "mark"
    /\ stages' = Append(stages, "Mark")
    /\ ops' = ops \cup {"markerWrite"}
    /\ markerFile' \in {markerFile, <<>>}
    /\ written' = "interrupted"
    /\ Interrupted("interrupted")
    /\ UNCHANGED <<markerAtStart, prevRun, gateVars, trigVars, queueVars, buildVars, loopVars,
                   uiVars>>
    /\ UNCHANGED spinVars
    /\ UNCHANGED repoVars

\* the script is invoked again, for a full run or a check, after a full run
\* that completed and wrote the marker, or after a run that followed such a
\* run and found nothing to do; the remote head has not changed since. The
\* new process starts from scratch: only the marker file is carried over
Rerun ==
    /\ pc = "done"
    /\ \/ outcome = "completed" /\ written = "ok" /\ ~headMoved /\ prevRun' = new_commit
       \/ outcome \in {"noop", "check_none"} /\ prevRun # NoneText /\ prevRun' = prevRun
    /\ args' \in {{"build"}, {"check"}}
    /\ pc' = "main"
    /\ markerFile' = markerFile
    /\ PipelineReset
    /\ UNCHANGED spinVars

\* someone pushes to origin/master while the watcher polls: the remote head
\* moves on to a new revision
RemotePush ==
    /\ pc = "build_loop"
    /\ ~headMoved
    /\ headMoved' = TRUE
    /\ Stay
    /\ UNCHANGED <<stages, ops, gitRc, gitOut, gateRaised, new_commit,
                   markerVars, trigVars, queueVars, buildVars, loopVars, uiVars>>
    /\ UNCHANGED spinVars
    /\ UNCHANGED repoVars

\* KeyboardInterrupt during the gate, outside the try (line 685), or during
\* the check-only mode: it leaves run_automation and main
InterruptGate ==
    /\ pc \in {"gate", "check"}
    /\ stages' = Append(stages, IF pc = "gate" THEN "Gate" ELSE "Check")
    /\ Interrupted("interrupt_uncaught")
    /\ UNCHANGED <<ops, markerVars, gateVars, trigVars, queueVars, buildVars, loopVars, uiVars>>
    /\ UNCHANGED spinVars
    /\ UNCHANGED repoVars

Next ==
    \/ Main
    \/ CheckOnly
    \/ Gate
    \/ TriggerPost
    \/ TriggerListing
    \/ TriggerLastBuild
    \/ QueueStart
    \/ QueuePoll
    \/ QueueFinal
    \/ BuildStart
    \/ BuildPoll
    \/ BuildFinal
    \/ UiStart
    \/ UiClick
    \/ UiOther
    \/ UiCleanup
    \/ Mark
    \/ Interrupt
    \/ InterruptUi
    \/ InterruptCleanup
    \/ InterruptMark
    \/ InterruptGate
    \/ RemotePush
    \/ Rerun
    \/ PushDetector
    \/ DetectorLaunch

Spec == Init /\ [][Next]_vars

\* ------------------------------------------- log_with_spinner, by thread
\* what an iteration of the loop meets: check_function returns False or a
\* truthy result, or an exception is raised in the iteration (by
\* check_function, or a KeyboardInterrupt)
CheckResults == {"False", "result", "raise"}

\* the durations log_with_spinner is called with: none, a number of whole
\* intervals, and one that ends inside an interval
SpinDurations ==
    {0} \cup {k * SpinInterval : k \in 1..MaxChecks} \cup {MaxChecks * SpinInterval - 5}

\* lines 160-177 as one thread runs them, from call i of check_function at
\* time `elapsed`: the calls made in all and what log_with_spinner returns
RECURSIVE PollingLoop(_, _, _, _)
PollingLoop(plan, i, elapsed, dur) ==
    IF ~LoopGoesOn(elapsed, dur) THEN [calls |-> i - 1, ret |-> "None"]
    ELSE IF plan[i] = "raise" THEN [calls |-> i, ret |-> "raise"]
    ELSE IF plan[i] # "False" THEN [calls |-> i, ret |-> plan[i]]
    ELSE PollingLoop(plan, i + 1, elapsed + SpinInterval, dur)

\* a call of log_with_spinner(message, duration, check_function) is about
\* to be made
SpinInit ==
    /\ args = {"build"}
    /\ markerFile = NoFile
    /\ prevRun = NoneText
    /\ pc = "spin_call"
    /\ PipelineInit
    /\ spin_duration \in SpinDurations
    /\ checkPlan \in [1..MaxChecks -> CheckResults]
    /\ spinner_active = FALSE
    /\ spinner_result = "None"
    /\ spinner_t = "None"
    /\ calls = <<>>
    /\ raising = FALSE
    /\ returned = "running"

\* what a step of log_with_spinner leaves alone
SpinFrame ==
    UNCHANGED <<stages, ops, markerVars, gateVars, trigVars, queueVars, buildVars, uiVars,
                loopExpired, lateIteration, finalChecks, endPoll, pollsOnCue,
                spin_duration, checkPlan, repoVars>>

\* lines 143-160: the flags, the start of the thread, start_time
SpinStart ==
    /\ pc = "spin_call"
    /\ Goto("spin_test")
    /\ spinner_active' = TRUE
    /\ spinner_result' = "None"
    /\ spinner_t' = "start"
    /\ clock' = 0
    /\ UNCHANGED <<calls, raising, returned>>
    /\ SpinFrame

\* line 163: the test of the loop
SpinTest ==
    /\ pc = "spin_test"
    /\ IF LoopGoesOn(clock, spin_duration) THEN Goto("spin_check") ELSE Goto("spin_finally")
    /\ UNCHANGED <<clock, spinner_active, spinner_result, spinner_t, calls, raising, returned>>
    /\ SpinFrame

\* lines 164-168: the call of check_function and the break on a truthy result
SpinCheck ==
    /\ pc = "spin_check"
    /\ calls' = Append(calls, clock)
    /\ LET result == checkPlan[Len(calls) + 1] IN
         IF result = "raise"
           THEN /\ raising' = TRUE
                /\ Goto("spin_finally")
                /\ UNCHANGED spinner_result
           ELSE IF result # "False"
                  THEN /\ spinner_result' = result
                       /\ Goto("spin_finally")
                       /\ UNCHANGED raising
                  ELSE /\ Goto("spin_sleep")
                       /\ UNCHANGED <<spinner_result, raising>>
    /\ UNCHANGED <<clock, spinner_active, spinner_t, returned>>
    /\ SpinFrame

\* line 169: time.sleep(check_interval)
SpinSleep ==
    /\ pc = "spin_sleep"
    /\ clock' = clock + SpinInterval
    /\ Goto("spin_test")
    /\ UNCHANGED <<spinner_active, spinner_result, spinner_t, calls, raising, returned>>
    /\ SpinFrame

\* line 171: the finally block clears the flag
SpinFinally ==
    /\ pc = "spin_finally"
    /\ spinner_active' = FALSE
    /\ Goto("spin_join")
    /\ UNCHANGED <<clock, spinner_result, spinner_t, calls, raising, returned>>
    /\ SpinFrame

\* line 173: join(timeout=0.5) returns when the thread has ended or when the
\* half second is over
SpinJoin ==
    /\ pc = "spin_join"
    /\ Goto("spin_return")
    /\ UNCHANGED <<clock, spinner_active, spinner_result, spinner_t, calls, raising, returned>>
    /\ SpinFrame

\* lines 175-177: the return, or the exception leaving
SpinReturn ==
    /\ pc = "spin_return"
    /\ returned' = IF raising THEN "raise" ELSE spinner_result
    /\ Goto("spin_done")
    /\ UNCHANGED <<clock, spinner_active, spinner_result, spinner_t, calls, raising>>
    /\ SpinFrame

\* a step of the spinner thread to position `where`, writing spinner_result
\* as the `nonlocal` of line 147 would allow
SpinnerStep_WritesResult(where) ==
    /\ spinner_t' = where
    /\ spinner_result' = "None"
    /\ Stay
    /\ UNCHANGED <<clock, spinner_active, calls, raising, returned>>
    /\ SpinFrame

\* a step of the spinner thread (lines 146-154) to position `where`: it
\* writes nothing of log_with_spinner
SpinnerStep(where) ==
    /\ spinner_t' = where
    /\ Stay
    /\ UNCHANGED <<clock, spinner_active, spinner_result, calls, raising, returned>>
    /\ SpinFrame

\* line 148: the thread enters the Live display, or Live raises and the
\* thread ends
SpinnerEnter ==
    /\ spinner_t = "start"
    /\ \E entered \in BOOLEAN : SpinnerStep(IF entered THEN "test" ELSE "ended")

\* line 150: the test of spinner_active
SpinnerTest ==
    /\ spinner_t = "test"
    /\ SpinnerStep(IF spinner_active THEN "update" ELSE "clear")

\* lines 151-152: one frame and the pause
SpinnerUpdate ==
    /\ spinner_t = "update"
    /\ SpinnerStep("test")

\* line 154 and the end of the with block
SpinnerClear ==
    /\ spinner_t = "clear"
    /\ SpinnerStep("ended")

\* the main thread in log_with_spinner
SpinMain ==
    \/ SpinStart
    \/ SpinTest
    \/ SpinCheck
    \/ SpinSleep
    \/ SpinFinally
    \/ SpinJoin
    \/ SpinReturn

\* the spinner thread
SpinnerThread ==
    \/ SpinnerEnter
    \/ SpinnerTest
    \/ SpinnerUpdate
    \/ SpinnerClear

SpinNext ==
    \/ SpinStart
    \/ SpinTest
    \/ SpinCheck
    \/ SpinSleep
    \/ SpinFinally
    \/ SpinJoin
    \/ SpinReturn
    \/ SpinnerEnter
    \/ SpinnerTest
    \/ SpinnerUpdate
    \/ SpinnerClear

\* both threads keep running: each sleeps and waits outside the interpreter
\* lock, so neither starves the other
SpinSpec == SpinInit /\ [][SpinNext]_vars /\ WF_vars(SpinMain) /\ WF_vars(SpinnerThread)

\* push_detector.main, lines 101-114: what it reports for the return code of
\* `script.py --build`
PushDetectorReport(returncode) ==
    IF returncode = 0 THEN "Automation completed successfully!"
    ELSE "Automation failed. Check output above."

\* ================================================================= claims
StageOrder == <<"Gate", "Trigger", "Queue", "Build", "UI", "Mark">>

\* the invocation is a run of run_automation (the claims about "a run"),
\* not one of main's other modes
FullRun == Mode(args) = "build"

\* the external operations each stage does
OpsOf(stage) ==
    IF stage = "Gate" THEN {"git"}
    ELSE IF stage = "Trigger" THEN {"post", "listing", "lastBuild"}
    ELSE IF stage = "Queue" THEN {"queuePoll"}
    ELSE IF stage = "Build" THEN {"buildPoll", "console"}
    ELSE IF stage = "UI" THEN {"browser"}
    ELSE {"markerWrite"}

\* every stage before the marker write returned success in this run
AllStagesSucceeded ==
    /\ TruthyText(new_commit)
    /\ TruthyUrl(queue_url)
    /\ TruthyNum(build_number)
    /\ build_success = "True"
    /\ tem_success = "True"

\* C1: the marker file is written, or differs from its content at the start
\* of the run, only when the gate returned a revision, the trigger a handle,
\* the queue resolver an execution id, and the completion watcher and the UI
\* automation success; in every other run it keeps its content.
C1_MarkerOnlyAfterFullSuccess ==
    ("markerWrite" \in ops \/ markerFile # markerAtStart) => AllStagesSucceeded

C1_Witness ==
    /\ outcome = "completed"
    /\ markerFile = new_commit
    /\ markerFile # markerAtStart

\* C2: the stage invocations of a run are a prefix of Gate, Trigger, Queue,
\* Build, UI, Mark, each at most once; a stage is invoked only if the one
\* before it returned success; no operation of a stage that was not invoked
\* occurs; a run whose gate reports nothing to do does nothing but the lookup.
C2_StagesArePrefixGatedOnSuccess ==
    FullRun =>
    /\ Len(stages) <= Len(StageOrder)
    /\ stages = SubSeq(StageOrder, 1, Len(stages))
    /\ Len(stages) >= 2 => TruthyText(new_commit)
    /\ Len(stages) >= 3 => TruthyUrl(queue_url)
    /\ Len(stages) >= 4 => TruthyNum(build_number)
    /\ Len(stages) >= 5 => build_success = "True"
    /\ Len(stages) >= 6 => tem_success = "True"
    /\ ops \subseteq UNION {OpsOf(stages[i]) : i \in 1..Len(stages)}
    /\ outcome = "noop" =>
         /\ ops = {"git"}
         /\ driver = "None"
         /\ markerFile = markerAtStart

C2_Witness ==
    /\ outcome = "build_failed"
    /\ stages = <<"Gate", "Trigger", "Queue", "Build">>
    /\ "console" \in ops

\* C3: when the lookup of the remote head succeeds, the run proceeds exactly
\* when the remote head differs from the marker, and then with the remote
\* head as the new revision; with no marker file it proceeds for every head.
C3_GateProceedsIffHeadDiffers ==
    (FullRun /\ "git" \in ops /\ ~gateRaised /\ gitRc = 0) =>
        LET remote_head == <<gitOut[1]>> IN
        /\ TruthyText(new_commit) <=> remote_head # markerAtStart
        /\ TruthyText(new_commit) => new_commit = remote_head
        /\ TruthyText(new_commit) <=> outcome # "noop"
        /\ markerAtStart = NoFile => TruthyText(new_commit)

C3_Witness ==
    /\ "git" \in ops /\ ~gateRaised /\ gitRc = 0
    /\ markerAtStart = <<gitOut[1]>>
    /\ outcome = "noop"

\* C4: whenever the lookup of the remote head fails (non-zero exit status or
\* an exception), the gate reports no new commit, no trigger request is sent
\* and the marker is not written.
C4_GateFailClosed ==
    (FullRun /\ "git" \in ops /\ (gateRaised \/ gitRc # 0)) =>
        /\ ~TruthyText(new_commit)
        /\ "post" \notin ops
        /\ "markerWrite" \notin ops

\* C5: after a 2xx trigger response with a Location header, the handle is
\* that location and neither the queue listing nor the last build is asked.
C5_LocationSkipsFallbacks ==
    (postStatus >= 200 /\ postStatus <= 299 /\ location # NoHandle) =>
        /\ queue_url = location
        /\ "listing" \notin ops
        /\ "lastBuild" \notin ops

C5_Witness ==
    /\ postStatus = 201
    /\ location # NoHandle
    /\ queue_url = location
    /\ "queuePoll" \in ops

\* C6: when the trigger response is outside 200-299 or the request raised,
\* and when the last-build strategy, reached after the other two, produced
\* nothing, no handle is returned and no later stage runs.
C6_TriggerFailureStopsRun ==
    LET postFailed == "post" \in ops /\ (postStatus = NoneNum \/ postStatus < 200 \/ postStatus > 299)
        exhausted == "lastBuild" \in ops /\ (lastNumber = NoneNum \/ lastNumber = 0)
    IN  (FullRun /\ (postFailed \/ exhausted)) =>
           /\ queue_url = NoHandle
           /\ outcome = "trigger_failed"
           /\ stages = <<"Gate", "Trigger">>
           /\ ops \subseteq {"git", "post", "listing", "lastBuild"}
           /\ driver = "None"
           /\ markerFile = markerAtStart

C6_Witness ==
    /\ outcome = "trigger_failed"
    /\ "lastBuild" \in ops
    /\ postStatus = 200
    /\ lastNumber = NoneNum

\* C7: after a 2xx trigger response without Location, the last-build
\* strategy is attempted whenever the queue listing gave no handle; no
\* handle is returned only after the last-build strategy was attempted; a
\* handle from the last-build strategy comes with the low-confidence warning.
C7_FallbackChainComplete ==
    LET fellBack == postStatus >= 200 /\ postStatus <= 299 /\ location = NoHandle
        listingDone == "listing" \in ops /\ pc # "trigger_listing"
        fromListing == queue_url.kind = "queueItem" /\ queue_url.id >= 1
    IN  /\ (FullRun /\ fellBack /\ listingDone /\ ~fromListing) =>
              ("lastBuild" \in ops \/ pc = "trigger_lastbuild")
        /\ (fellBack /\ outcome = "trigger_failed") => "lastBuild" \in ops
        /\ queue_url.kind = "build" => warned

\* the lines of a console text that the claim expects in the logged tail:
\* the non-blank ones among its last TailLines lines
ExpectedTail(text) ==
    LET lines == Split(text)
        window == {i \in 1..Len(lines) : i > Len(lines) - TailLines /\ NonBlank(lines[i])}
        nth(j) == CHOOSE i \in window : Cardinality({k \in window : k <= i}) = j
    IN  [j \in 1..Cardinality(window) |-> lines[nth(j)]]

\* C8: the watcher reports success exactly when a poll observed the build
\* finished with result SUCCESS; after any other terminal result it reports
\* failure, has fetched the console log, and the logged tail is at most 20
\* lines, none blank: the non-blank ones of the last 20, in their order.
C8_SuccessIffResultSuccess ==
    /\ build_success = "True" <=> observed = "SUCCESS"
    /\ observed \notin {"None", "SUCCESS"} =>
         /\ build_success = "False"
         /\ "console" \in ops
         /\ Len(consoleTail) <= TailLines
         /\ \A j \in 1..Len(consoleTail) : Strip(consoleTail[j]) # <<>>
         /\ consoleText # NoneText => consoleTail = ExpectedTail(consoleText)
    /\ observed \in {"None", "SUCCESS"} => consoleTail = <<>> /\ "console" \notin ops

C8_Witness ==
    /\ observed = "FAILURE"
    /\ build_success = "False"
    /\ consoleText # NoneText
    /\ Len(Split(consoleText)) > TailLines
    /\ Len(consoleTail) > 0
    /\ Len(consoleTail) < TailLines

\* C9: a failed status poll (a status outside 200-299, or a raised error)
\* does not end the wait: the watcher reports failure on a failed poll only
\* when its wait had run out.
C9_PollErrorDoesNotEndWait ==
    (build_success = "False" /\ endPoll \in {"raised", "error"}) => loopExpired

\* C10: a failed status poll (a status outside 200-299, or a raised error)
\* is swallowed by the queue resolver: it returns failure on a failed poll
\* only when its timeout had elapsed.
C10_QueueFailureOnlyAtTimeout ==
    (outcome = "queue_failed" /\ endPoll \in {"raised", "error"}) => loopExpired

\* C11: when the resolver's timeout elapsed and its final check met no
\* execution id either, it returns failure and the run stops there: no
\* further step, no watcher, no UI automation, the marker as it was.
C11_QueueTimeoutHaltsRun ==
    (loopExpired /\ stages = <<"Gate", "Trigger", "Queue">> /\ endPoll # "done") =>
        /\ pc = "done"
        /\ outcome = "queue_failed"
        /\ ~TruthyNum(build_number)
        /\ ops \subseteq {"git", "post", "listing", "lastBuild", "queuePoll"}
        /\ build_success = "None"
        /\ driver = "None"
        /\ markerFile = markerAtStart
        /\ ~ENABLED Next

C11_Witness ==
    /\ outcome = "queue_failed"
    /\ loopExpired
    /\ endPoll = "waiting"
    /\ queue_url.kind = "queueItem"

\* the status polls one wait of the watcher can make: one per interval that
\* fits in the wait, and the final check
MaxPolls == MaxWaitSeconds \div BuildInterval + 1

\* C12: the watcher makes at most one poll per interval of its wait plus the
\* final check, each poll that keeps it waiting moves its clock on by an
\* interval, it can always go on, and when the final check still reports the
\* build running it has returned failure.
C12_WatcherTimeoutFails ==
    /\ buildPolls <= MaxPolls
    /\ pc = "build_loop" =>
         /\ clock >= buildPolls * BuildInterval
         /\ ENABLED (BuildPoll \/ BuildFinal)
    /\ (loopExpired /\ stages = <<"Gate", "Trigger", "Queue", "Build">>
           /\ endPoll = "waiting") =>
         /\ pc = "done"
         /\ outcome = "build_failed"
         /\ build_success = "False"
         /\ "browser" \notin ops
         /\ markerFile = markerAtStart

C12_Witness ==
    /\ outcome = "build_failed"
    /\ loopExpired
    /\ endPoll = "waiting"
    /\ buildPolls = MaxPolls

\* C13: once a safe_click of the form sequence has failed, no later step of
\* the sequence is attempted and the automation returns failure.
C13_ClickFailureAborts ==
    clickFailed =>
        /\ pc # "ui_steps"
        /\ uiPending # "True"
        /\ tem_success # "True"

\* C14: the automation returns success only if the Submit click succeeded
\* and no earlier step failed; the marker is never written in a run whose
\* Submit click did not succeed.
C14_SuccessNeedsSubmit ==
    /\ tem_success = "True" => (submitOk /\ ~clickFailed)
    /\ "markerWrite" \in ops => submitOk

\* C15: a safe_click whose direct click was rejected (intercepted or not
\* interactable) made exactly one forced attempt and returned True if that
\* attempt went through, False if it raised; no safe_click makes a forced
\* attempt otherwise, nor more than one.
C15_OneForcedAttempt ==
    /\ lastClick.rejected =>
         /\ lastClick.forced = 1
         /\ lastClick.ret = (IF lastClick.forcedOk THEN "True" ELSE "False")
    /\ ~lastClick.rejected => lastClick.forced = 0
    /\ lastClick.forced <= 1

C15_Witness ==
    /\ lastClick.rejected
    /\ lastClick.forced = 1
    /\ lastClick.ret = "False"
    /\ pc = "ui_steps"

\* C16: no run ends with the browser session it obtained still live.
C16_NoLiveSessionAtEnd ==
    pc = "done" => driver # "live"

\* C17: a KeyboardInterrupt that arrives while the queue resolver or the
\* completion watcher polls ends the run at once: nothing more is done, no
\* later stage has run, the marker is as it was, and the run is reported as
\* interrupted by the user, not as an error.
C17_InterruptStopsPolling ==
    interruptAt \in {"queue_loop", "build_loop"} =>
        /\ pc = "done"
        /\ outcome = "interrupted"
        /\ ~ENABLED Next
        /\ markerFile = markerAtStart
        /\ ops \cap {"browser", "markerWrite"} = {}
        /\ build_success = "None"
        /\ tem_success = "None"
        /\ driver = "None"
        /\ interruptAt = "queue_loop" =>
             (stages = <<"Gate", "Trigger", "Queue">> /\ "buildPoll" \notin ops)
        /\ interruptAt = "build_loop" =>
             stages = <<"Gate", "Trigger", "Queue", "Build">>

C17_Witness ==
    /\ interruptAt = "build_loop"
    /\ outcome = "interrupted"
    /\ "buildPoll" \in ops

\* C18: the exit status is non-zero whenever the trigger, the queue, the
\* build or the UI automation failed, zero only after a complete pipeline or
\* a gate with nothing to do; so push_detector reports success only for
\* such a run.
C18_ExitStatusReflectsOutcome ==
    (FullRun /\ pc = "done" /\ stages # <<>>) =>
        /\ outcome \in {"trigger_failed", "queue_failed", "build_failed", "tem_failed"} =>
              exitStatus # 0
        /\ exitStatus = 0 => outcome \in {"completed", "noop"}
        /\ PushDetectorReport(exitStatus) = "Automation completed successfully!" =>
              outcome \in {"completed", "noop"}

\* C19: a trigger request is sent only by an invocation given --build or
\* --test-jenkins, never by one given --help-setup or --check, and
\* run_automation runs only when --build is given.
C19_TriggerOnlyOnRequest ==
    /\ "post" \in ops => ("build" \in args \/ "test_jenkins" \in args)
    /\ ("help_setup" \in args \/ "check" \in args) => "post" \notin ops
    /\ args \cap {"build", "test_jenkins"} = {} =>
         ops \cap {"post", "listing", "lastBuild"} = {}
    /\ (pc \in {"gate", "mark"} \/ (stages # <<>> /\ stages[1] = "Gate")) =>
         "build" \in args

C19_Witness ==
    /\ args = {"test_tem"}
    /\ pc = "done"
    /\ outcome = "test_passed"
    /\ "browser" \in ops
    /\ "post" \notin ops

\* the run went as the end-to-end scenario: the trigger answered 201 with a
\* Location, the execution id came on the 2nd queue poll, SUCCESS on the 3rd
\* build poll, and every step of the form sequence went through
ScenarioB ==
    /\ gitRc = 0
    /\ postStatus = 201
    /\ location # NoHandle
    /\ pollsOnCue
    /\ tem_success = "True"
    /\ ~clickFailed
    /\ submitOk

\* C20: after a run that completed and whose marker write went through, the
\* marker file holds the revision the gate returned, which is the remote head
\* the gate saw, wherever the remote head has moved since; a run that went as
\* the end-to-end scenario and was not interrupted completes, with the
\* marker at that head.
C20_MarkerIsGateRevision ==
    /\ (FullRun /\ outcome = "completed" /\ written = "ok") =>
          /\ markerFile = new_commit
          /\ gitRc = 0 => markerFile = <<gitOut[1]>>
    /\ (FullRun /\ pc = "done" /\ interruptAt = "None" /\ ScenarioB) =>
          /\ outcome = "completed"
          /\ exitStatus = 0
          /\ written = "ok" => markerFile = <<gitOut[1]>>

C20_Witness ==
    /\ outcome = "completed"
    /\ written = "ok"
    /\ ScenarioB
    /\ headMoved
    /\ markerFile = <<gitOut[1]>>
    /\ markerFile # <<NewRevision>>
    /\ markerFile # markerAtStart

\* C21: while the item stays pending, the queue resolver emits at most one
\* "Still in queue" notification per 15-minute bucket of queued time,
\* however the polls fall (several in one minute, late ones, failed ones).
C21_OneNotePerBucket ==
    noteCount <= 1

C21_Witness ==
    /\ pc = "queue_loop"
    /\ lastPollNote = "repeat"
    /\ noteCount = 1
    /\ noteBucket = 2

\* C22: the marker file is never partially updated: in every state, also
\* after an error or an interrupt during the marker write, it is absent,
\* holds what it held before the run, or holds the whole revision the gate
\* returned; it is never empty or truncated.
C22_MarkerNeverPartial ==
    \/ markerFile = NoFile
    \/ markerFile = markerAtStart
    \/ (TruthyText(new_commit) /\ markerFile = new_commit)

\* C23: the marker has a single writer: check_for_new_commits does not write
\* the marker file, and an invocation in a mode other than the full run
\* (check only, trigger test, UI automation test, setup help, no flag)
\* leaves the marker as it was, however it ends.
C23_SingleWriter ==
    /\ ~FullRun =>
         /\ markerFile = markerAtStart
         /\ written = "None"
         /\ "markerWrite" \notin ops
    /\ (stages # <<>> /\ stages[Len(stages)] \in {"Gate", "Check"}) =>
         /\ markerFile = markerAtStart
         /\ "markerWrite" \notin ops

C23_Witness ==
    /\ Mode(args) = "test_tem"
    /\ outcome = "test_passed"
    /\ tem_success = "True"
    /\ markerFile = markerAtStart

\* C25: while the item stays pending and polling goes on, the queue resolver
\* emits a notification for every 15-minute bucket of queued time that is
\* reached, at the first poll in a bucket not yet reported, however the
\* polls fall within the bucket.
C25_EveryReachedBucketNotified ==
    lastPollNote # "missed"

\* C26: get_build_number_from_queue returns the execution number of the
\* first status response in which an executable appears and sends no status
\* request after that response; it returns no execution number that no
\* status response of the handle reported.
C26_ReturnsFirstReported ==
    /\ TruthyNum(firstReported) =>
         /\ pc # "queue_loop"
         /\ build_number = firstReported
    /\ TruthyNum(build_number) => build_number = firstReported

C26_Witness ==
    /\ pc = "build"
    /\ endPoll = "done"
    /\ ~loopExpired
    /\ firstReported = 2
    /\ build_number = 2

\* C27: failed polls do not extend a polling deadline: in both polling loops
\* no iteration begins once the time elapsed since the start of the loop has
\* reached the timeout, whatever polls failed or succeeded before, and at
\* most one final check follows the loop.
C27_DeadlineFromLoopStart ==
    /\ ~lateIteration
    /\ finalChecks <= 1
    /\ finalChecks = 1 => loopExpired

C27_Witness ==
    /\ outcome = "queue_failed"
    /\ loopExpired
    /\ finalChecks = 1
    /\ endPoll = "error"
    /\ ~lateIteration

\* C28: while the execution reports still running, the completion watcher's
\* notifications are gated by elapsed time: none is emitted before 900 s
\* have passed since the start of the wait, and two consecutive ones are at
\* least 900 s apart, however the polls fall.
C28_NotesGatedByElapsedTime ==
    /\ ~noteTooSoon
    /\ (pc = "build_loop" /\ lastNoteAt # 0) => lastNoteAt >= NotifyGap

C28_Witness ==
    /\ pc = "build_loop"
    /\ lastNoteAt >= 2 * NotifyGap
    /\ ~noteTooSoon

\* C29: in safe_click a timeout of the wait for the busy overlay is not
\* fatal: the warning is logged and safe_click goes on to wait for the
\* target and to click it, so that it can still return True; a timeout of the
\* wait for the target makes it return False with no click attempted,
\* direct or forced.
C29_BusyTimeoutGoesOnTargetTimeoutFails ==
    /\ lastClick.warned => lastClick.target # "None"
    /\ (lastClick.warned /\ lastClick.target = "clickable") => lastClick.direct = 1
    /\ lastClick.target = "timeout" =>
         /\ lastClick.ret = "False"
         /\ lastClick.direct = 0
         /\ lastClick.forced = 0

C29_Witness ==
    /\ lastClick.warned
    /\ lastClick.target = "clickable"
    /\ lastClick.direct = 1
    /\ lastClick.ret = "True"

\* the order of the UI steps that the specification fixes
StepOrder == <<"login", "executionsTab", "createJob", "branchDropdown", "branchOption",
               "versionDropdown", "versionOption", "testPlanSearchIcon", "searchText",
               "testPlanResult", "baseUrlOk", "ownerEmail", "usageDropdown",
               "usageOption", "submit", "confirmation", "finalOk">>

InStepOrder(n) == \E i \in 1..Len(StepOrder) : StepOrder[i] = n

\* the dropdown a step is an option of
DropdownOf(n) ==
    IF n = "branchOption" THEN "branchDropdown"
    ELSE IF n = "versionOption" THEN "versionDropdown"
    ELSE "usageDropdown"

\* C30: the UI steps are attempted in one fixed order: each execution
\* attempts a prefix of the list of steps, and the option of a dropdown is
\* clicked only after that dropdown's open step was attempted in the same
\* execution.
C30_StepsInFixedOrder ==
    LET listed == SelectSeq(attempted, InStepOrder) IN
    /\ Len(listed) <= Len(StepOrder)
    /\ listed = SubSeq(StepOrder, 1, Len(listed))
    /\ \A i \in 1..Len(attempted) :
         attempted[i] \in {"branchOption", "versionOption", "usageOption"} =>
           \E j \in 1..(i - 1) : attempted[j] = DropdownOf(attempted[i])

C30_Witness ==
    /\ pc = "ui_cleanup"
    /\ uiPending = "True"
    /\ clickFailed
    /\ Len(SelectSeq(attempted, InStepOrder)) = Len(StepOrder)

\* log_with_spinner with no spinner thread, for the inputs of the call
WithoutSpinner == PollingLoop(checkPlan, 1, 0, spin_duration)

\* the polling loop of log_with_spinner has ended
SpinLoopEnded == pc \in {"spin_finally", "spin_join", "spin_return", "spin_done"}

\* C24: the spinner thread is cosmetic: under every interleaving of the
\* thread with the polling loop, check_function is called at the times and
\* as often as without the thread and log_with_spinner returns the same
\* value; no step of the thread writes the poll result; and once the polling
\* loop has ended the thread eventually stops.
C24_SpinnerIsCosmetic ==
    /\ [](/\ Len(calls) <= WithoutSpinner.calls
          /\ \A k \in 1..Len(calls) : calls[k] = (k - 1) * SpinInterval
          /\ pc = "spin_done" =>
                /\ Len(calls) = WithoutSpinner.calls
                /\ returned = WithoutSpinner.ret)
    /\ [][(spinner_t # "None" /\ spinner_t' # spinner_t) =>
            UNCHANGED <<spinner_result, spinner_active, calls, clock, pc, returned>>]_vars
    /\ (SpinLoopEnded ~> spinner_t = "ended")

C24_Witness ==
    /\ pc = "spin_done"
    /\ returned = "result"
    /\ Len(calls) = 2
    /\ spinner_t \in {"test", "update", "clear"}

\* C31: when the pending-queue listing is used, the handle returned is the
\* url of the first entry, in listing order, whose task url contains the job
\* name: entries before it that do not match are skipped, entries after it
\* are not looked at, and the last-build strategy is not tried.
C31_ListingPicksFirstMatch ==
    listedFirst.pos # 0 =>
      /\ queue_url = listedFirst.url
      /\ "lastBuild" \notin ops
      /\ ~warned

C31_Witness ==
    /\ listedFirst.pos = 2
    /\ queue_url = QueueItemUrl(2)
    /\ pc = "queue"

\* C32: whenever a full run reports "Automation completed successfully!",
\* the marker file holds the revision that run processed; a run whose
\* marker write failed does not report full success.
C32_SuccessMeansMarkerWritten ==
    (FullRun /\ outcome = "completed") =>
      /\ written = "ok"
      /\ markerFile = new_commit

\* C33: a handle made by the last-known-build strategy (the location of
\* build lastBuild.number) is resolved by the queue resolver: when the
\* server answers the status requests for that build, the resolver returns
\* the build's number; it does not poll until the queue timeout and return
\* failure.
C33_LastBuildHandleResolves ==
    (queue_url.kind = "build" /\ "queuePoll" \in ops /\ pc # "queue_loop"
       /\ endPoll \in {"waiting", "done"}) =>
      /\ build_number = queue_url.id
      /\ outcome # "queue_failed"

\* C34: after a full run that wrote the marker for the revision h it
\* processed, a following full run or check that sees the same remote head
\* reads back a marker equal to h, finds nothing to do and sends no trigger,
\* for every h the gate can return; the marker stays h, and runs repeat so
\* as long as the remote head does not change.
C34_RerunIsNoOp ==
    prevRun # NoneText =>
      /\ markerFile = prevRun
      /\ markerAtStart = prevRun
      /\ ops \subseteq {"git"}
      /\ new_commit = NoneText
      /\ outcome \notin {"check_new", "completed"}
      /\ ("git" \in ops /\ ~gateRaised) =>
           /\ Strip(gitOut) = prevRun
           /\ pc = "done"
           /\ outcome \in {"noop", "check_none"}

C34_Witness ==
    /\ prevRun = <<"h2">>
    /\ gitOut = <<"h2", "nl">>
    /\ markerFile = <<"h2">>
    /\ outcome = "noop"
    /\ stages = <<"Gate">>

\* the flags in the order of their precedence
Precedence == <<"help_setup", "check", "test_jenkins", "test_tem", "build">>

\* the flag among those given that comes first in that order
FirstGiven ==
    IF args = {} THEN "none"
    ELSE Precedence[CHOOSE i \in 1..Len(Precedence) :
                        /\ Precedence[i] \in args
                        /\ \A j \in 1..(i - 1) : Precedence[j] \notin args]

\* C35: an invocation executes exactly one mode, chosen by the precedence
\* help-setup > check > test-jenkins > test-tem > build: of several flags
\* only the first in that order runs. --check with --build sends no trigger
\* and starts no browser; --test-jenkins with --build sends one trigger and
\* polls nothing.
C35_OneModeByPrecedence ==
    /\ FirstGiven \in {"none", "help_setup"} => (stages = <<>> /\ ops = {})
    /\ FirstGiven = "check" =>
         /\ stages \in {<<>>, <<"Check">>}
         /\ ops \subseteq {"git"}
         /\ pc \in {"main", "check", "done"}
    /\ FirstGiven = "test_jenkins" =>
         /\ stages \in {<<>>, <<"Trigger">>}
         /\ ops \subseteq {"post", "listing", "lastBuild"}
         /\ pc \in {"main", "trigger", "trigger_listing", "trigger_lastbuild", "done"}
         /\ outcome \in {"test_passed", "test_failed"} =>
              (stages = <<"Trigger">> /\ "post" \in ops)
    /\ FirstGiven = "test_tem" =>
         /\ stages \in {<<>>, <<"UI">>}
         /\ ops \subseteq {"browser"}
    /\ FirstGiven = "build" =>
         /\ args = {"build"}
         /\ stages # <<>> => stages[1] = "Gate"
         /\ outcome \notin {"help_setup", "safety", "check_new", "check_none", "check_error",
                             "test_passed", "test_failed", "test_error"}

C35_Witness ==
    /\ args = {"test_jenkins", "build"}
    /\ pc = "done"
    /\ outcome = "test_passed"
    /\ stages = <<"Trigger">>
    /\ ops \cap {"git", "queuePoll", "buildPoll", "browser", "markerWrite"} = {}

\* the identifier of the repository is in a remote_url that was read
RepoPasses(r) == r.read = "ok" /\ Contains(<<"csf-integration-testscripts">>, r.url)

\* C36: repository guard. When the origin URL of the working directory
\* cannot be read or does not contain csf-integration-testscripts (letter
\* case aside), a mode that constructs a BuildAutomator does no gate lookup,
\* build trigger, status poll, browser session or marker write; and
\* push_detector starts the automation only when its repository check
\* passed and --auto-build is among its arguments.
C36_RepositoryGuard ==
    /\ (origin.read # "None" /\ ~RepoPasses(origin)) =>
         /\ pc = "done"
         /\ outcome \in {"init_failed", "check_error", "test_error"}
         /\ stages = <<>>
         /\ ops = {}
         /\ driver = "None"
         /\ markerFile = markerAtStart
    /\ (ops # {} \/ stages # <<>>) => RepoPasses(origin)
    /\ pc = "detector_launch" =>
         (RepoPasses(detOrigin) /\ "--auto-build" \in detArgv)
    /\ (detOrigin.read # "None" /\ ~(RepoPasses(detOrigin) /\ "--auto-build" \in detArgv)) =>
         /\ pc = "done"
         /\ outcome \in {"wrong_repository", "push_only"}
         /\ args = {}
         /\ ops = {}

C36_Witness ==
    /\ args = {"build"}
    /\ origin = [read |-> "ok", url |-> <<"host/", "infor/", "other-repo", ".git">>]
    /\ outcome = "init_failed"
    /\ ops = {}
====
